---- MODULE Spec2Model ----
(***************************************************************************)
(* Verification model of the zynseq step sequencer library                 *)
(* (zynlibs/zynseq/zynseq.cpp, zynlibs/zynseq/pattern.cpp).                *)
(*                                                                         *)
(* Part 1: the MIDI schedule g_mSchedule, its producers (sendMidiMsg,      *)
(*         playNote / noteOffTimer, PatternManager::clock) and its         *)
(*         consumer, the drain at the end of onJackProcess.                *)
(* Part 2: the schedule flag g_bMutex, with the realtime thread and the    *)
(*         control threads taken one statement at a time.                  *)
(* Part 3: the transport / timebase driver onJackTimebase, with the        *)
(*         transport functions of the control interface.                   *)
(* Part 4: init, setPlayState and the MIDI input of onJackProcess.         *)
(* Part 5: class Pattern, the events of a pattern and their editing.       *)
(***************************************************************************)
EXTENDS Integers, Sequences, FiniteSets, TLC

(***************************************************************************)
(* Bounds of the model.                                                    *)
(***************************************************************************)
\* jack_nframes_t and the schedule key are uint32_t; the model keeps the
\* wrap-around of that width on a smaller modulus.
FrameMod == 8
\* Largest period size (nFrames) the host hands to onJackProcess.
MaxPeriod == 2
\* Number of MIDI messages allocated (new MIDI_MESSAGE) in one behaviour.
MaxMsgs == 3
\* Largest number of events the host's output buffer takes in one cycle.
MaxCap == 2

(***************************************************************************)
(* MIDI status bytes used by the direct MIDI interface.                    *)
(***************************************************************************)
MIDI_NOTE_ON == 144
MIDI_START == 250

Keys == 0 .. (FrameMod - 1)
\* A null MIDI_MESSAGE pointer (it->second = NULL, zynseq.cpp:467).
NULL == [id |-> -1]

VARIABLES
    g_mSchedule,   \* std::map<uint32_t,MIDI_MESSAGE*>: key -> message or NULL
    nAlloc,        \* how many MIDI_MESSAGEs have been allocated
    frameTime,     \* what jack_last_frame_time returns in the next cycle
    timers,        \* detached noteOffTimer threads still asleep
    outBuf,        \* the output port buffer of the latest cycle
    cycNow,        \* nNow of the latest cycle
    cycFrames,     \* nFrames of the latest cycle
    drainExit      \* the path on which the latest drain ended

schedVars == <<g_mSchedule, nAlloc, frameTime, timers, outBuf, cycNow, cycFrames,
               drainExit>>

\* Part 2: the threads around the schedule flag g_bMutex.
VARIABLES
    g_bMutex,      \* bool g_bMutex: "Mutex lock for access to g_mSchedule"
    rt,            \* where the realtime (JACK process) thread stands
    rtIt,          \* the drain's iterator `it` once its loop is left
    ctl,           \* where each control thread stands in sendMidiMsg
    ctlTime,       \* each control thread's local `time`
    ctlMsg         \* each control thread's pMsg

mutexVars == <<g_bMutex, rt, rtIt, ctl, ctlTime, ctlMsg>>

\* Part 3: the transport / timebase driver.
VARIABLES
    drv,           \* the transport globals of zynseq.cpp, a field each
    pos,           \* the host's jack_position_t as last published
    host,          \* the JACK transport: state, requested position, cycles
    tbEvents,      \* the timebase map of the selected song (g_pTimebase)
    pulses         \* the clock pulses of the last timebase callback

tbVars == <<drv, pos, host, tbEvents, pulses>>

\* Part 4: the library, the sequences and the pattern under the editor.
VARIABLES
    lib,           \* g_pJackClient, the ports, g_pPattern, g_nInputChannel
    pm,            \* the pattern manager: play states, trigger channel, song,
                   \* the editor sequence's step, the selected pattern's events
    last           \* the latest call: its arguments, what it saw and returned,
                   \* and the functions it called

inVars == <<lib, pm, last>>

\* Part 5: a pattern (class Pattern of pattern.cpp) and its editing calls.
VARIABLES
    pattern,       \* m_nBeats, m_nStepsPerBeat and the vector m_vEvents
    call           \* the latest call on the pattern: its arguments, the
                   \* pattern it found, what it returned, whether it ended

patVars == <<pattern, call>>

\* What the operations of the schedule alone leave as it is.
notSched == <<mutexVars, tbVars, inVars, patVars>>

vars == <<schedVars, mutexVars, tbVars, inVars, patVars>>

(***************************************************************************)
(* Helpers on the ordered map.                                             *)
(***************************************************************************)
\* The keys of a std::map in iteration order (ascending).
RECURSIVE SortedKeys(_)
SortedKeys(S) ==
    IF S = {} THEN <<>>
    ELSE LET m == CHOOSE x \in S : \A y \in S : x <= y
         IN <<m>> \o SortedKeys(S \ {m})

\* std::map::operator[] assignment.
MapPut(m, k, v) == [x \in (DOMAIN m) \cup {k} |-> IF x = k THEN v ELSE m[x]]

\* std::map::erase of a set of keys.
MapErase(m, ks) == [x \in (DOMAIN m) \ ks |-> m[x]]

\* sendMidiMsg: "while(g_mSchedule.find(time) != g_mSchedule.end()) ++time"
\* from `start`; ++time wraps at the width of uint32_t.
RECURSIVE FirstFreeSlot(_, _)
FirstFreeSlot(sched, time) ==
    IF time \in DOMAIN sched
    THEN FirstFreeSlot(sched, (time + 1) % FrameMod)
    ELSE time

(***************************************************************************)
(* The drain of onJackProcess (zynseq.cpp:429-475).                        *)
(***************************************************************************)
\* "if(it->first >= nNow + nFrames) break": uint32_t arithmetic.
BeyondBuffer(key, nNow, nFrames) == key >= (nNow + nFrames) % FrameMod

\* EventTime without "if(nTime < nNextTime) nTime = nNextTime".
EventTimeNoBump(key, nNow, nNextTime) ==
    IF key < nNow THEN nNextTime ELSE key - nNow

\* EventTime taking every entry for a late one.
EventTimeAsap(key, nNow, nNextTime) == nNextTime

\* nTime of an entry: a late entry goes out as soon as possible, an on-time
\* entry at its offset, and never before nNextTime.
EventTime(key, nNow, nNextTime) ==
    LET nTime == IF key < nNow THEN nNextTime ELSE key - nNow
    IN IF nTime < nNextTime THEN nNextTime ELSE nTime

\* jack_midi_event_reserve returns NULL once the buffer holds `cap` events.
ReserveFails(count, cap) == count >= cap

\* The while loop over the schedule.  keys: the map's keys in order; i: the
\* position of the iterator `it`; out: the events reserved so far.
\* Result: where `it` stands when the loop is left, the output buffer, and
\* the path taken out of the loop.
RECURSIVE DrainLoop(_, _, _, _, _, _, _, _)
DrainLoop(sched, keys, i, nNextTime, out, nNow, nFrames, cap) ==
    IF i > Len(keys)
    THEN [it |-> i, out |-> out, exit |-> "end"]
    ELSE IF BeyondBuffer(keys[i], nNow, nFrames)
    THEN [it |-> i, out |-> out, exit |-> "beyond"]
    ELSE LET nTime == EventTime(keys[i], nNow, nNextTime)
         IN IF nTime >= nFrames
            THEN [it |-> i, out |-> out, exit |-> "bumped"]
            ELSE IF ReserveFails(Len(out), cap)
            THEN [it |-> i, out |-> out, exit |-> "nobuf"]
            ELSE DrainLoop(sched, keys, i + 1, nTime + 1,
                           Append(out, [time |-> nTime, key |-> keys[i],
                                        msg |-> sched[keys[i]]]),
                           nNow, nFrames, cap)

\* The keys the iterator has passed: [begin, it).
Passed(keys, it) == {keys[j] : j \in 1 .. (it - 1)}

\* EraseSent erasing one entry too many: [begin, it].
EraseSentInclusive(sched, keys, it) ==
    MapErase(sched, {keys[j] : j \in 1 .. (IF it > Len(keys) THEN Len(keys) ELSE it)})

\* "g_mSchedule.erase(g_mSchedule.begin(), it)".
EraseSent(sched, keys, it) == MapErase(sched, Passed(keys, it))

\* "delete it->second; it->second = NULL" for every entry passed, which is
\* all that happens to the map on the early return of line 453.
NullSent(sched, keys, it) ==
    [k \in DOMAIN sched |-> IF k \in Passed(keys, it) THEN NULL ELSE sched[k]]

\* AfterDrain clearing the whole map whenever the loop was left by a break.
AfterDrainClear(sched, keys, res) ==
    IF res.exit = "bumped"
    THEN NullSent(sched, keys, res.it)
    ELSE MapErase(sched, DOMAIN sched)

\* The schedule after the drain.
AfterDrain(sched, keys, res) ==
    IF res.exit = "bumped"
    THEN NullSent(sched, keys, res.it)
    ELSE EraseSent(sched, keys, res.it)

(***************************************************************************)
(* Initial state.                                                          *)
(***************************************************************************)
SchedInit ==
    /\ g_mSchedule = <<>>
    /\ nAlloc = 0
    /\ frameTime = 0
    /\ timers = {}
    /\ outBuf = <<>>
    /\ cycNow = 0
    /\ cycFrames = 0
    /\ drainExit = "none"

(***************************************************************************)
(* Producers.                                                              *)
(***************************************************************************)
\* "new MIDI_MESSAGE" of the direct MIDI interface: the three bytes, and for
\* the properties its rank among the messages handed to sendMidiMsg (id),
\* who made it (src) and, for a note-off, the id of the note-on it ends (ref).
NewMsg(command, value1, value2, src, ref) ==
    [id |-> nAlloc + 1, command |-> command, value1 |-> value1,
     value2 |-> value2, src |-> src, ref |-> ref]

\* A message of a sequence, allocated by the pattern manager; it does not go
\* through sendMidiMsg and has no rank.
SeqMsg == [id |-> 0, command |-> MIDI_NOTE_ON, value1 |-> 60, value2 |-> 100,
           src |-> "clock", ref |-> 0]

\* sendMidiMsg(pMsg): the message goes to the first free key from 0.
sendMidiMsg(pMsg) ==
    LET time == FirstFreeSlot(g_mSchedule, 0)
    IN /\ nAlloc < MaxMsgs
       /\ nAlloc' = nAlloc + 1
       /\ g_mSchedule' = MapPut(g_mSchedule, time, pMsg)

\* sendMidiStart(): a one-byte message through sendMidiMsg.
sendMidiStart ==
    /\ sendMidiMsg(NewMsg(MIDI_START, 0, 0, "send", 0))
    /\ UNCHANGED <<frameTime, timers, outBuf, cycNow, cycFrames, drainExit>>
    /\ UNCHANGED notSched

\* playNote(note, velocity, channel, duration); with a duration the detached
\* noteOffTimer thread is started, which first sleeps.
playNote(note, velocity, channel, duration) ==
    IF note > 127 \/ velocity > 127 \/ channel > 15 \/ duration > 60000
    THEN UNCHANGED vars
    ELSE /\ sendMidiMsg(NewMsg(MIDI_NOTE_ON + channel, note, velocity, "on", 0))
         /\ timers' = IF duration > 0
                      THEN timers \cup {[on |-> nAlloc + 1, note |-> note,
                                         channel |-> channel,
                                         key |-> FirstFreeSlot(g_mSchedule, 0)]}
                      ELSE timers
         /\ UNCHANGED <<frameTime, outBuf, cycNow, cycFrames, drainExit>>
         /\ UNCHANGED notSched

\* noteOffTimer(note, channel, duration), after its sleep: a note-on with
\* velocity 0 through sendMidiMsg.
noteOffTimer(t) ==
    /\ sendMidiMsg(NewMsg(MIDI_NOTE_ON + (t.channel % 16), t.note, 0, "off", t.on))
    /\ timers' = timers \ {t}
    /\ UNCHANGED <<frameTime, outBuf, cycNow, cycFrames, drainExit>>
    /\ UNCHANGED notSched

\* PatternManager::clock(nClockPos, &g_mSchedule, ...), called by the
\* timebase callback for a clock pulse: a sequence event is put at the first
\* free key from the pulse's frame nClockPos, which lies in the coming periods.
PatternClock(nClockPos) ==
    LET nTime == FirstFreeSlot(g_mSchedule, nClockPos)
    IN /\ nAlloc < MaxMsgs
       /\ nAlloc' = nAlloc + 1
       /\ g_mSchedule' = MapPut(g_mSchedule, nTime, SeqMsg)
       /\ UNCHANGED <<frameTime, timers, outBuf, cycNow, cycFrames, drainExit>>
       /\ UNCHANGED notSched

(***************************************************************************)
(* The consumer: one process cycle.                                        *)
(***************************************************************************)
\* The drain of a process cycle (lines 426-476); cap is how many events the
\* host's output buffer takes in this cycle.
Drain(nFrames, cap) ==
    LET nNow == frameTime
        keys == SortedKeys(DOMAIN g_mSchedule)
        res == DrainLoop(g_mSchedule, keys, 1, 0, <<>>, nNow, nFrames, cap)
    IN /\ g_mSchedule' = AfterDrain(g_mSchedule, keys, res)
       /\ outBuf' = res.out
       /\ drainExit' = IF keys = <<>> THEN "empty" ELSE res.exit
       /\ cycNow' = nNow
       /\ cycFrames' = nFrames
       /\ frameTime' = (nNow + nFrames) % FrameMod
       /\ UNCHANGED <<nAlloc, timers>>

\* onJackProcess(nFrames) with no MIDI input: the drain.
onJackProcess(nFrames, cap) ==
    /\ Drain(nFrames, cap)
    /\ UNCHANGED notSched

(***************************************************************************)
(* Part 2: the schedule flag.  onJackProcess and sendMidiMsg taken one     *)
(* statement at a time, as the realtime thread and the control threads     *)
(* (API callers and detached noteOffTimer threads) run them side by side.  *)
(***************************************************************************)
\* Control threads that may be inside sendMidiMsg at once.
NumCtl == 2
CtlThreads == 1 .. NumCtl

\* The iterator g_mSchedule.end().
END == FrameMod

MutexInit ==
    /\ g_bMutex = FALSE
    /\ rt = "idle"
    /\ rtIt = END
    /\ ctl = [t \in CtlThreads |-> "idle"]
    /\ ctlTime = [t \in CtlThreads |-> 0]
    /\ ctlMsg = [t \in CtlThreads |-> NULL]

\* "while(g_bMutex) sleep_for(...)": one reading of the flag.  The flag is a
\* plain bool, so the reading and the assignment that follows are two steps.
FlagBusy(pc) == IF g_bMutex THEN "sleep" ELSE "set"

\* ---- the realtime thread: onJackProcess, then the timebase callback ----
\* The host calls onJackProcess; the MIDI input is handled (lines 353-425).
RtCall ==
    /\ rt = "idle"
    /\ rt' = "test"
    /\ UNCHANGED <<g_bMutex, rtIt, ctl, ctlTime, ctlMsg, schedVars>>
    /\ UNCHANGED <<tbVars, inVars, patVars>>

\* Line 429: while(g_bMutex).
RtTest ==
    /\ rt = "test"
    /\ rt' = FlagBusy(rt)
    /\ UNCHANGED <<g_bMutex, rtIt, ctl, ctlTime, ctlMsg, schedVars>>
    /\ UNCHANGED <<tbVars, inVars, patVars>>

\* Line 430: sleep_for(10us) returns.
RtSleep ==
    /\ rt = "sleep"
    /\ rt' = "test"
    /\ UNCHANGED <<g_bMutex, rtIt, ctl, ctlTime, ctlMsg, schedVars>>
    /\ UNCHANGED <<tbVars, inVars, patVars>>

\* Line 431: g_bMutex = true.
RtSet ==
    /\ rt = "set"
    /\ g_bMutex' = TRUE
    /\ rt' = "drain"
    /\ UNCHANGED <<rtIt, ctl, ctlTime, ctlMsg, schedVars>>
    /\ UNCHANGED <<tbVars, inVars, patVars>>

\* Lines 432-471: the loop of the drain.  The messages written are deleted
\* and their entries set to NULL; the entries go at line 472.
RtDrain(nFrames, cap) ==
    LET nNow == frameTime
        keys == SortedKeys(DOMAIN g_mSchedule)
        res == DrainLoop(g_mSchedule, keys, 1, 0, <<>>, nNow, nFrames, cap)
    IN /\ rt = "drain"
       /\ g_mSchedule' = NullSent(g_mSchedule, keys, res.it)
       /\ rtIt' = IF res.it > Len(keys) THEN END ELSE keys[res.it]
       /\ rt' = IF keys # <<>> /\ res.exit # "bumped" THEN "erase" ELSE "unlock"
       /\ outBuf' = res.out
       /\ drainExit' = IF keys = <<>> THEN "empty" ELSE res.exit
       /\ cycNow' = nNow
       /\ cycFrames' = nFrames
       /\ frameTime' = (nNow + nFrames) % FrameMod
       /\ UNCHANGED <<g_bMutex, ctl, ctlTime, ctlMsg, nAlloc, timers>>
       /\ UNCHANGED <<tbVars, inVars, patVars>>

\* Line 472: g_mSchedule.erase(g_mSchedule.begin(), it), on the map as it
\* is by now.
RtErase ==
    /\ rt = "erase"
    /\ g_mSchedule' = MapErase(g_mSchedule, {k \in DOMAIN g_mSchedule : k < rtIt})
    /\ rt' = "unlock"
    /\ UNCHANGED <<g_bMutex, rtIt, ctl, ctlTime, ctlMsg, nAlloc, frameTime, timers,
                   outBuf, cycNow, cycFrames, drainExit>>
    /\ UNCHANGED <<tbVars, inVars, patVars>>

\* Lines 452 and 474: g_bMutex = false; return 0.
RtUnlock ==
    /\ rt = "unlock"
    /\ g_bMutex' = FALSE
    /\ rt' = "timebase"
    /\ UNCHANGED <<rtIt, ctl, ctlTime, ctlMsg, schedVars>>
    /\ UNCHANGED <<tbVars, inVars, patVars>>

\* onJackTimebase, which the host runs in the same thread right after
\* onJackProcess: with the transport rolling and a clock pulse in the period
\* it goes on to line 299, otherwise it returns.
RtTimebase ==
    /\ rt = "timebase"
    /\ rt' \in (IF nAlloc < MaxMsgs THEN {"clock", "idle"} ELSE {"idle"})
    /\ UNCHANGED <<g_bMutex, rtIt, ctl, ctlTime, ctlMsg, schedVars>>
    /\ UNCHANGED <<tbVars, inVars, patVars>>

\* Line 299: PatternManager::clock(nClockPos, &g_mSchedule, ...) puts the
\* events of the pulse into the schedule; g_bMutex is neither read nor set.
RtClock(nClockPos) ==
    /\ rt = "clock"
    /\ rt' = "idle"
    /\ nAlloc < MaxMsgs
    /\ nAlloc' = nAlloc + 1
    /\ g_mSchedule' = MapPut(g_mSchedule, FirstFreeSlot(g_mSchedule, nClockPos), SeqMsg)
    /\ UNCHANGED <<g_bMutex, rtIt, ctl, ctlTime, ctlMsg, frameTime, timers,
                   outBuf, cycNow, cycFrames, drainExit>>
    /\ UNCHANGED <<tbVars, inVars, patVars>>

\* ---- a control thread in sendMidiMsg ----
\* The thread calls sendMidiMsg(pMsg); "uint32_t time = 0".
CtlCall(t) ==
    /\ ctl[t] = "idle"
    /\ nAlloc < MaxMsgs
    /\ nAlloc' = nAlloc + 1
    /\ ctlMsg' = [ctlMsg EXCEPT ![t] = NewMsg(MIDI_START, 0, 0, "send", 0)]
    /\ ctlTime' = [ctlTime EXCEPT ![t] = 0]
    /\ ctl' = [ctl EXCEPT ![t] = "test"]
    /\ UNCHANGED <<g_bMutex, rt, rtIt, g_mSchedule, frameTime, timers, outBuf,
                   cycNow, cycFrames, drainExit>>
    /\ UNCHANGED <<tbVars, inVars, patVars>>

\* Line 579: while(g_bMutex).
CtlTest(t) ==
    /\ ctl[t] = "test"
    /\ ctl' = [ctl EXCEPT ![t] = FlagBusy(ctl[t])]
    /\ UNCHANGED <<g_bMutex, rt, rtIt, ctlTime, ctlMsg, schedVars>>
    /\ UNCHANGED <<tbVars, inVars, patVars>>

\* Line 580: sleep_for(1ms) returns.
CtlSleep(t) ==
    /\ ctl[t] = "sleep"
    /\ ctl' = [ctl EXCEPT ![t] = "test"]
    /\ UNCHANGED <<g_bMutex, rt, rtIt, ctlTime, ctlMsg, schedVars>>
    /\ UNCHANGED <<tbVars, inVars, patVars>>

\* Line 581: g_bMutex = true.
CtlSet(t) ==
    /\ ctl[t] = "set"
    /\ g_bMutex' = TRUE
    /\ ctl' = [ctl EXCEPT ![t] = "find"]
    /\ UNCHANGED <<rt, rtIt, ctlTime, ctlMsg, schedVars>>
    /\ UNCHANGED <<tbVars, inVars, patVars>>

\* Lines 582-583: the search for the first free key.
CtlFind(t) ==
    /\ ctl[t] = "find"
    /\ ctlTime' = [ctlTime EXCEPT ![t] = FirstFreeSlot(g_mSchedule, 0)]
    /\ ctl' = [ctl EXCEPT ![t] = "insert"]
    /\ UNCHANGED <<g_bMutex, rt, rtIt, ctlMsg, schedVars>>
    /\ UNCHANGED <<tbVars, inVars, patVars>>

\* Line 584: g_mSchedule[time] = pMsg.
CtlInsert(t) ==
    /\ ctl[t] = "insert"
    /\ g_mSchedule' = MapPut(g_mSchedule, ctlTime[t], ctlMsg[t])
    /\ ctl' = [ctl EXCEPT ![t] = "unlock"]
    /\ UNCHANGED <<g_bMutex, rt, rtIt, ctlTime, ctlMsg, nAlloc, frameTime, timers,
                   outBuf, cycNow, cycFrames, drainExit>>
    /\ UNCHANGED <<tbVars, inVars, patVars>>

\* Line 585: g_bMutex = false; the thread returns.
CtlUnlock(t) ==
    /\ ctl[t] = "unlock"
    /\ g_bMutex' = FALSE
    /\ ctl' = [ctl EXCEPT ![t] = "idle"]
    /\ ctlMsg' = [ctlMsg EXCEPT ![t] = NULL]
    /\ ctlTime' = [ctlTime EXCEPT ![t] = 0]
    /\ UNCHANGED <<rt, rtIt, schedVars>>
    /\ UNCHANGED <<tbVars, inVars, patVars>>

\* The output buffer takes every event here (cap = MaxCap), and a pulse of the
\* timebase callback lies a period ahead.
NextMutex ==
    \/ RtCall
    \/ RtTest
    \/ RtSleep
    \/ RtSet
    \/ \E nFrames \in 1 .. MaxPeriod : RtDrain(nFrames, MaxCap)
    \/ RtErase
    \/ RtUnlock
    \/ RtTimebase
    \/ RtClock((frameTime + MaxPeriod) % FrameMod)
    \/ \E t \in CtlThreads : CtlCall(t)
    \/ \E t \in CtlThreads : CtlTest(t)
    \/ \E t \in CtlThreads : CtlSleep(t)
    \/ \E t \in CtlThreads : CtlSet(t)
    \/ \E t \in CtlThreads : CtlFind(t)
    \/ \E t \in CtlThreads : CtlInsert(t)
    \/ \E t \in CtlThreads : CtlUnlock(t)

(***************************************************************************)
(* Part 3: the transport / timebase driver (onJackTimebase and the         *)
(* functions around it).  Doubles are taken as exact rationals <<n, d>>.   *)
(***************************************************************************)
\* double g_dTicksPerBeat = 1920.0 and g_dTicksPerClock = g_dTicksPerBeat / 24.
g_dTicksPerBeat == 1920
ClocksPerBeat == 24
g_dTicksPerClock == g_dTicksPerBeat \div ClocksPerBeat

\* The song defaults of the constants header: 120 bpm and 4/4 (0x0404).
DEFAULT_TEMPO == 120
DEFAULT_TIMESIG == 1028

\* Frames of a period (the host's buffer size) and the sample rate at start.
Period == 2000
InitRate == 3840
\* Timebase callbacks and other calls in a run, events in the map, bars an
\* event may sit at.
MaxCycles == 6
MaxOps == 4
MaxEvents == 1
MaxEvBar == 2
\* Beats the song is long once a track is there.
SongLength == 16

Tempos == {60}
Rates == {InitRate, 2 * InitRate}
EvClocks == {0, 2 * ClocksPerBeat}
SigBeats == {3}

RECURSIVE GCD(_, _)
GCD(a, b) == IF b = 0 THEN a ELSE GCD(b, a % b)

\* The rational n / d in lowest terms.
Frac(n, d) == LET g == GCD(n, d) IN <<n \div g, d \div g>>

\* A non-negative double converted to an unsigned integer: truncation.  (A
\* negative one is not met for the tempos and rates above, and within
\* MaxCycles periods no frame count comes near 2^32.)
ToUint(f) == IF f[1] >= 0 THEN f[1] \div f[2] ELSE 0

\* getFramesPerTick: 60 * g_nSampleRate / (dTempo * g_dTicksPerBeat).
getFramesPerTick(nSampleRate, dTempo) ==
    Frac(60 * nSampleRate, dTempo * g_dTicksPerBeat)

\* getFramesPerClock: getFramesPerTick(dTempo) * g_dTicksPerClock.
getFramesPerClock(nSampleRate, dTempo) ==
    LET fpt == getFramesPerTick(nSampleRate, dTempo)
    IN Frac(fpt[1] * g_dTicksPerClock, fpt[2])

(***************************************************************************)
(* The timebase map of the selected song: events [bar, clock, type, value] *)
(* in (bar, clock) order; a cursor is an index, 0 for NULL.                *)
(***************************************************************************)
AtOrBefore(bar1, clock1, bar2, clock2) ==
    bar1 < bar2 \/ (bar1 = bar2 /\ clock1 <= clock2)

SamePlace(e, f) == e.bar = f.bar /\ e.clock = f.clock /\ e.type = f.type

\* Timebase::addTimebaseEvent: one event of a type at a place, kept in order.
TbInsert(evs, ev) ==
    LET kept == SelectSeq(evs, LAMBDA e : ~SamePlace(e, ev))
        before == SelectSeq(kept, LAMBDA e : AtOrBefore(e.bar, e.clock, ev.bar, ev.clock))
        after == SelectSeq(kept, LAMBDA e : ~AtOrBefore(e.bar, e.clock, ev.bar, ev.clock))
    IN before \o <<ev>> \o after

\* The value of the last event of a type at or before (bar, clock), or the
\* song default.
TbValueAt(evs, type, bar, clock, default) ==
    LET hits == SelectSeq(evs, LAMBDA e : e.type = type
                                          /\ AtOrBefore(e.bar, e.clock, bar, clock))
    IN IF hits = <<>> THEN default ELSE hits[Len(hits)].value

\* Timebase::getTempo and Timebase::getTimeSig.
getTempo(evs, bar, clock) == TbValueAt(evs, "TEMPO", bar, clock, DEFAULT_TEMPO)
getTimeSig(evs, bar, clock) == TbValueAt(evs, "TIMESIG", bar, clock, DEFAULT_TIMESIG)

\* Timebase::getFirstTimebaseEvent and Timebase::getNextTimebaseEvent.
getFirstTimebaseEvent(evs) == IF evs = <<>> THEN 0 ELSE 1
getNextTimebaseEvent(evs, cur) == IF cur < Len(evs) THEN cur + 1 ELSE 0

(***************************************************************************)
(* onJackTimebase, part by part.  d is the record of the transport         *)
(* globals, p the jack_position_t the host hands in.                       *)
(***************************************************************************)
\* Lines 200-219: the timebase events whose bar is not beyond g_nBar.
RECURSIVE ConsumeEvents(_, _, _)
ConsumeEvents(d, p, evs) ==
    LET cur == d.g_pNextTimebaseEvent
    IN IF cur = 0 \/ evs[cur].bar > d.g_nBar
       THEN [d |-> d, p |-> p]
       ELSE LET ev == evs[cur]
                nxt == getNextTimebaseEvent(evs, cur)
            IN IF ev.type = "TEMPO"
               THEN ConsumeEvents(
                        [d EXCEPT !.g_dTempo = ev.value,
                                  !.g_dFramesPerClock =
                                      getFramesPerClock(d.g_nSampleRate, ev.value),
                                  !.g_bTimebaseChanged = TRUE,
                                  !.g_pNextTimebaseEvent = nxt],
                        [p EXCEPT !.beats_per_minute = ev.value], evs)
               ELSE ConsumeEvents(
                        [d EXCEPT !.g_fBeatsPerBar = ev.value \div 256,
                                  !.g_fBeatType = ev.value % 16,
                                  !.g_bTimebaseChanged = TRUE,
                                  !.g_pNextTimebaseEvent = nxt],
                        [p EXCEPT !.beats_per_bar = ev.value \div 256], evs)

\* Lines 226-227: tempo and beats per bar read again from the map.
RereadTimebase(d, evs) ==
    LET at == d.g_nBeat * g_dTicksPerBeat + d.g_nTick
    IN [d EXCEPT !.g_dTempo = getTempo(evs, d.g_nBar, at),
                 !.g_fBeatsPerBar = getTimeSig(evs, d.g_nBar, at) \div 256]

\* transportGetLocation (lines 1189-1222): frames from the song start to a
\* BBT position, at the default tempo and time signature.
transportGetLocation(nSampleRate, bar, beat, tick) ==
    LET bar0 == IF bar > 0 THEN bar - 1 ELSE bar
        beat0 == IF beat > 0 THEN beat - 1 ELSE beat
        nTicksPerBar == g_dTicksPerBeat * (DEFAULT_TIMESIG \div 256)
        fpt == getFramesPerTick(nSampleRate, DEFAULT_TEMPO)
        ticks == bar0 * nTicksPerBar + beat0 * g_dTicksPerBeat + tick
    IN ToUint(Frac(fpt[1] * ticks, fpt[2]))

\* Lines 230-249: the position set from the BBT the host handed in.
SetFromBBT(d, p) ==
    LET tpb == p.ticks_per_beat
        beat1 == p.beat + (p.tick \div tpb)
        tick1 == p.tick % tpb
        bar1 == p.bar + ((beat1 - 1) \div p.beats_per_bar)
        beat2 == ((beat1 - 1) % p.beats_per_bar) + 1
    IN [d |-> [d EXCEPT !.g_nClock = (tick1 \div g_dTicksPerClock) % 256,
                        !.g_nBar = bar1,
                        !.g_nBeat = beat2,
                        !.g_nTick = tick1],
        p |-> [p EXCEPT !.bar = bar1, !.beat = beat2, !.tick = tick1,
                        !.frame = transportGetLocation(d.g_nSampleRate, bar1, beat2, tick1),
                        !.ticks_per_beat = g_dTicksPerBeat,
                        !.beats_per_minute = d.g_dTempo]]

\* updateBBT (lines 98-176): the position computed from the frame.  Lines
\* 120-122 are overwritten by lines 166-169.
updateBBT(d, p) ==
    LET fpt == getFramesPerTick(d.g_nSampleRate, d.g_dTempo)
        nTicksPerBar == g_dTicksPerBeat * (DEFAULT_TIMESIG \div 256)
        nTicksInSection == ToUint(Frac(p.frame * fpt[2], fpt[1]))
        nBarsInSection == nTicksInSection \div nTicksPerBar
        nTicksInLastBar == nTicksInSection % nTicksPerBar
        beat == (nTicksInLastBar \div g_dTicksPerBeat) + 1
        tick == nTicksInLastBar % beat
    IN [d |-> [d EXCEPT !.g_nClock = tick % g_dTicksPerClock,
                        !.g_nFramesToNextClock = 0],
        p |-> [p EXCEPT !.bar = nBarsInSection + 1,
                        !.beat = beat,
                        !.tick = tick,
                        !.bar_start_tick = nTicksInSection - nTicksInLastBar,
                        !.beats_per_bar = d.g_fBeatsPerBar,
                        !.beats_per_minute = d.g_dTempo,
                        !.beat_type = d.g_fBeatType,
                        !.ticks_per_beat = g_dTicksPerBeat]]

\* Lines 222-260: the branch taken on bUpdate or g_bTimebaseChanged.
Reposition(d, p, evs, nFrameTime) ==
    LET d1 == RereadTimebase(d, evs)
        r == IF p.valid THEN SetFromBBT(d1, p) ELSE updateBBT(d1, p)
    IN [d |-> [r.d EXCEPT !.g_nTransportStartFrame = nFrameTime + r.p.frame,
                          !.g_bTimebaseChanged = FALSE],
        p |-> [r.p EXCEPT !.valid = TRUE]]

\* Lines 261-276: the BBT of the previous period published.
CarryOver(d, p) ==
    LET p1 == [p EXCEPT !.bar = d.g_nBar,
                        !.beat = d.g_nBeat,
                        !.tick = d.g_nTick % g_dTicksPerBeat,
                        !.bar_start_tick = 0,
                        !.beats_per_bar = d.g_fBeatsPerBar,
                        !.beat_type = d.g_fBeatType,
                        !.ticks_per_beat = g_dTicksPerBeat,
                        !.beats_per_minute = d.g_dTempo]
    IN [d |-> d,
        p |-> IF d.g_nBeat = 0 /\ d.g_nSongStatus = "PLAYING"
              THEN [p1 EXCEPT !.frame = transportGetLocation(d.g_nSampleRate,
                                                             p1.bar, p1.beat, p1.tick)]
              ELSE p1]

\* The events the cursor has passed, and the events whose place is at or
\* before clock inBar of a bar.
EventsBefore(evs, cur) == IF cur = 0 THEN Len(evs) ELSE cur - 1
EventsDue(evs, bar, inBar) ==
    Len(SelectSeq(evs, LAMBDA e : AtOrBefore(e.bar, e.clock, bar, inBar)))

\* Lines 282-313: the clock pulses of the period.  bPlaying is what
\* PatternManager::clock returns; the sequences hold no events here, so the
\* call leaves g_mSchedule as it is.  Each pulse is noted with the globals
\* it was walked with, the frames from the start of the period to it, the
\* events applied by then and the events due at its place.
RECURSIVE PulseWalk(_, _, _, _, _, _, _)
PulseWalk(d, p, nRemainingFrames, bSync, out, evs, bPlaying) ==
    IF ~(d.g_nFramesToNextClock < nRemainingFrames)
    THEN [d |-> d, nRemainingFrames |-> nRemainingFrames, bSync |-> bSync, out |-> out]
    ELSE LET nClockPos == d.g_nFramesToNextClock + p.frame
                          + d.g_nTransportStartFrame + Period
             onBeat == d.g_nClock = 0
             sync == onBeat /\ d.g_nBeat = 1
             ended == d.g_nSongStatus = "PLAYING" /\ d.g_nSongPosition + 1 > d.g_nSongLength
             status1 == IF onBeat /\ ended THEN "STOPPED" ELSE d.g_nSongStatus
             status2 == IF sync /\ status1 = "STARTING" THEN "PLAYING" ELSE status1
             wrapClock == (d.g_nClock + 1) % 256 > ClocksPerBeat - 1
             wrapBeat == wrapClock /\ d.g_nBeat + 1 > d.g_fBeatsPerBar
             inBar == (d.g_nBeat - 1) * ClocksPerBeat + d.g_nClock
             pulse == [frame |-> nClockPos, sync |-> sync,
                       fpc |-> d.g_dFramesPerClock, tempo |-> d.g_dTempo,
                       rate |-> d.g_nSampleRate, bar |-> d.g_nBar,
                       beat |-> d.g_nBeat, clock |-> d.g_nClock,
                       bpb |-> d.g_fBeatsPerBar,
                       offset |-> Period - nRemainingFrames + d.g_nFramesToNextClock,
                       applied |-> EventsBefore(evs, d.g_pNextTimebaseEvent),
                       due |-> EventsDue(evs, d.g_nBar, inBar)]
         IN PulseWalk(
                [d EXCEPT !.g_nTick = IF onBeat THEN g_dTicksPerBeat * (d.g_nBeat - 1)
                                      ELSE d.g_nTick,
                          !.g_nSongPosition =
                              IF onBeat /\ d.g_nSongStatus = "PLAYING"
                              THEN d.g_nSongPosition + 1
                              ELSE d.g_nSongPosition,
                          !.g_nSongStatus = status2,
                          !.g_bPlaying = bPlaying,
                          !.g_nFramesToNextClock = ToUint(d.g_dFramesPerClock),
                          !.g_nClock = IF wrapClock THEN 0 ELSE d.g_nClock + 1,
                          !.g_nBeat = IF wrapBeat THEN 1
                                      ELSE IF wrapClock THEN d.g_nBeat + 1
                                      ELSE d.g_nBeat,
                          !.g_nBar = IF wrapBeat /\ status2 = "PLAYING"
                                     THEN d.g_nBar + 1 ELSE d.g_nBar],
                p, nRemainingFrames - d.g_nFramesToNextClock, sync,
                Append(out, pulse), evs, bPlaying)

\* Lines 314-322: what follows the walk w in a rolling period.
AfterWalk(w) ==
    LET fpt == getFramesPerTick(w.d.g_nSampleRate, w.d.g_dTempo)
    IN [d |-> [w.d EXCEPT !.g_nFramesToNextClock =
                              w.d.g_nFramesToNextClock - w.nRemainingFrames,
                          !.g_nTick = ToUint(<<g_dTicksPerBeat * fpt[1]
                                               - w.nRemainingFrames * fpt[2], fpt[1]>>)],
        out |-> w.out,
        stop |-> w.bSync /\ ~w.d.g_bPlaying]

\* A jack_position_t with nothing in it, and the request of
\* jack_transport_locate.
ZeroPos == [frame |-> 0, valid |-> FALSE, bar |-> 0, beat |-> 0, tick |-> 0,
            bar_start_tick |-> 0, beats_per_bar |-> 0, beat_type |-> 0,
            ticks_per_beat |-> 0, beats_per_minute |-> 0]
Locate(frame) == [ZeroPos EXCEPT !.frame = frame]

\* The transport globals as lines 44-73 set them, with the frames per clock
\* the sample-rate callback computed when init() registered it; init() ends
\* with transportStop() and transportLocate(0).
TransportInit ==
    /\ drv = [g_nSampleRate |-> InitRate, g_dTempo |-> DEFAULT_TEMPO,
              g_dFramesPerClock |-> getFramesPerClock(InitRate, DEFAULT_TEMPO),
              g_bTimebaseChanged |-> FALSE, g_pNextTimebaseEvent |-> 0,
              g_nBar |-> 1, g_nBeat |-> 1, g_nTick |-> 0, g_nClock |-> 0,
              g_nFramesToNextClock |-> 0, g_nTransportStartFrame |-> 0,
              g_fBeatsPerBar |-> 4, g_fBeatType |-> 4,
              g_nSongStatus |-> "STOPPED", g_nSongPosition |-> 0,
              g_nSongLength |-> 0, g_bPlaying |-> FALSE]
    /\ host = [state |-> "Stopped", newPos |-> TRUE, req |-> Locate(0), cycle |-> 0,
               ops |-> 0]
    /\ tbEvents = <<>>
    /\ pulses = <<>>

\* No position published yet.
TimebaseInit == TransportInit /\ pos = ZeroPos

\* onJackTimebase (lines 194-324).  The host calls it after a process cycle
\* while the transport rolls or a new position was requested, with the
\* position of the next cycle.
onJackTimebase(bPlaying) ==
    LET bUpdate == host.newPos
        nFrameTime == host.cycle * Period
        pIn == IF bUpdate THEN host.req
               ELSE [pos EXCEPT !.frame = pos.frame + Period]
        rolling == host.state = "Rolling"
    IN /\ host.cycle < MaxCycles
       /\ host.state = "Rolling" \/ host.newPos
       /\ \E c1 \in {ConsumeEvents(drv, pIn, tbEvents)} :
          \E c2 \in {IF bUpdate \/ c1.d.g_bTimebaseChanged
                     THEN Reposition(c1.d, c1.p, tbEvents, nFrameTime)
                     ELSE CarryOver(c1.d, c1.p)} :
          \E w \in {IF rolling
                    THEN PulseWalk(c2.d, c2.p, Period, FALSE, <<>>, tbEvents, bPlaying)
                    ELSE [d |-> c2.d, nRemainingFrames |-> Period, bSync |-> FALSE,
                          out |-> <<>>]} :
          \E c3 \in {IF rolling THEN AfterWalk(w)
                     ELSE [d |-> c2.d, out |-> <<>>, stop |-> FALSE]} :
              /\ drv' = c3.d
              /\ pos' = c2.p
              /\ pulses' = c3.out
              /\ host' = [state |-> IF c3.stop THEN "Stopped" ELSE host.state,
                          newPos |-> c3.stop,
                          req |-> Locate(0),
                          cycle |-> host.cycle + 1,
                          ops |-> host.ops]
       /\ UNCHANGED <<tbEvents, schedVars, mutexVars, inVars, patVars>>

\* A call of the control interface, or a callback of the host other than
\* the timebase callback: MaxOps of them in a run.
Called ==
    /\ host.ops < MaxOps
    /\ host' = [host EXCEPT !.ops = @ + 1]

\* onJackSampleRateChange (lines 478-484).
onJackSampleRateChange(nFrames) ==
    /\ drv' = [drv EXCEPT !.g_nSampleRate = nFrames,
                          !.g_dFramesPerClock = getFramesPerClock(nFrames, drv.g_dTempo)]
    /\ Called
    /\ UNCHANGED <<pos, tbEvents, pulses, schedVars, mutexVars, inVars, patVars>>

\* transportSetTempo (lines 1261-1265).
transportSetTempo(tempo) ==
    /\ drv' = [drv EXCEPT !.g_dTempo = tempo, !.g_bTimebaseChanged = TRUE]
    /\ Called
    /\ UNCHANGED <<pos, tbEvents, pulses, schedVars, mutexVars, inVars, patVars>>

\* What setTempo and setTimeSig do once the song has stored the event
\* (lines 1031-1036, 1049-1054); the song is the selected one.
TimebaseEdited(evs) ==
    /\ Len(evs) <= MaxEvents
    /\ tbEvents' = evs
    /\ drv' = [drv EXCEPT !.g_bTimebaseChanged = TRUE,
                          !.g_pNextTimebaseEvent = getFirstTimebaseEvent(evs)]
    /\ Called
    /\ UNCHANGED <<pos, pulses, schedVars, mutexVars, inVars, patVars>>

\* setTempo (lines 1028-1037).
setTempo(tempo, bar, tick) ==
    TimebaseEdited(TbInsert(tbEvents, [bar |-> bar, clock |-> tick,
                                       type |-> "TEMPO", value |-> tempo]))

\* setTimeSig (lines 1044-1055): the value is beats << 8 | type.
setTimeSig(beats, type, bar) ==
    TimebaseEdited(TbInsert(tbEvents, [bar |-> IF bar < 1 THEN 1 ELSE bar, clock |-> 0,
                                       type |-> "TIMESIG",
                                       value |-> (beats * 256 + type) % 65536]))

\* addPattern (lines 886-892): the song gets its length from the pattern
\* manager.
addPattern ==
    /\ drv.g_nSongLength = 0
    /\ drv' = [drv EXCEPT !.g_nSongLength = SongLength]
    /\ Called
    /\ UNCHANGED <<pos, tbEvents, pulses, schedVars, mutexVars, inVars, patVars>>

\* startSong (lines 1093-1097).
startSong(bFast) ==
    /\ drv' = [drv EXCEPT !.g_nSongStatus = IF bFast THEN "PLAYING" ELSE "STARTING"]
    /\ Called
    /\ UNCHANGED <<pos, tbEvents, pulses, schedVars, mutexVars, inVars, patVars>>

\* transportStart (lines 1236-1239).
transportStart ==
    /\ host.ops < MaxOps
    /\ host.state = "Stopped"
    /\ host' = [host EXCEPT !.ops = @ + 1, !.state = "Rolling"]
    /\ UNCHANGED <<drv, pos, tbEvents, pulses, schedVars, mutexVars, inVars, patVars>>

\* setTransportToStartOfBar (lines 1134-1143): the position queried from
\* the host is requested again with beat 1, tick 0.
setTransportToStartOfBar ==
    /\ host.ops < MaxOps
    /\ ~host.newPos
    /\ host' = [host EXCEPT !.ops = @ + 1, !.newPos = TRUE,
                            !.req = [pos EXCEPT !.beat = 1, !.tick = 0]]
    /\ UNCHANGED <<drv, pos, tbEvents, pulses, schedVars, mutexVars, inVars, patVars>>

\* transportLocate (lines 1182-1185): the host is asked for a frame, and
\* hands it to the next timebase callback with no BBT.
transportLocate(frame) ==
    /\ host.ops < MaxOps
    /\ host' = [host EXCEPT !.ops = @ + 1, !.newPos = TRUE, !.req = Locate(frame)]
    /\ UNCHANGED <<drv, pos, tbEvents, pulses, schedVars, mutexVars, inVars, patVars>>

NextTimebase ==
    \/ \E bPlaying \in BOOLEAN : onJackTimebase(bPlaying)
    \/ \E nFrames \in Rates : onJackSampleRateChange(nFrames)
    \/ \E tempo \in Tempos : transportSetTempo(tempo)
    \/ \E tempo \in Tempos, bar \in 1 .. MaxEvBar, tick \in EvClocks :
           setTempo(tempo, bar, tick)
    \/ \E beats \in SigBeats, bar \in 1 .. MaxEvBar : setTimeSig(beats, 4, bar)
    \/ addPattern
    \/ \E bFast \in BOOLEAN : startSong(bFast)
    \/ transportStart
    \/ setTransportToStartOfBar

(***************************************************************************)
(* Part 4: init, setPlayState and the MIDI input of a process cycle.       *)
(***************************************************************************)
PlayStates == {"STOPPED", "PLAYING", "STOPPING", "STARTING"}

\* The sequence the pattern editor plays (getSequence(1), line 411), and a
\* sequence bound to a trigger note.
EditorSeq == 1
TriggerSeq == 2
Sequences == 0 .. TriggerSeq
TriggerNote == 60
\* Steps of the selected pattern (beats * steps per beat).
PatternSteps == 2
\* The incoming note-ons: channel and note (channel 0 is the trigger
\* channel, channel 1 the input channel), and their velocities.
MidiInputs == {<<0, TriggerNote>>, <<0, TriggerNote + 1>>, <<1, TriggerNote>>,
               <<2, TriggerNote>>}
InputVelocities == {0, 100}

\* What jack_client_open, jack_port_register and jack_activate may refuse.
InitFaults == {"none", "open", "input", "output", "activate"}

\* No call yet.
NoCall == [op |-> "", sequence |-> 0, state |-> "", status |-> 0, note |-> 0,
           velocity |-> 0, rolling |-> FALSE, master |-> FALSE, fault |-> "",
           granted |-> FALSE, already |-> FALSE, ret |-> FALSE, calls |-> <<>>]

\* The globals of lines 36-52 before init(), and a pattern manager with its
\* sequences stopped and the pattern editor's song (0) current.
InputInit ==
    /\ lib = [g_pJackClient |-> FALSE, g_pInputPort |-> FALSE, g_pOutputPort |-> FALSE,
              active |-> FALSE, g_pPattern |-> FALSE, g_nInputChannel |-> 1]
    /\ pm = [playState |-> [q \in Sequences |-> "STOPPED"], triggerChannel |-> 0,
             currentSong |-> 0, step |-> 0, events |-> {}]
    /\ last = NoCall

\* The returns of init with false, were a refused timebase registration a
\* failure too.
InitFailsUnlessMaster(already, fault, bTimebaseMaster, bGranted) ==
    already \/ fault # "none" \/ (bTimebaseMaster /\ ~bGranted)

\* init, lines 511-542: the returns with false.
InitFails(already, fault, bTimebaseMaster, bGranted) ==
    already \/ fault # "none"

\* init (lines 504-558).  fault is the call of the host that fails, bGranted
\* whether jack_set_timebase_callback succeeds; the call notes the answers
\* of the host it got to ask for.
init(bTimebaseMaster, fault, bGranted) ==
    LET already == lib.g_pJackClient
        fails == InitFails(already, fault, bTimebaseMaster, bGranted)
    IN /\ lib' = IF already THEN lib
                 ELSE [lib EXCEPT !.g_pJackClient = fault # "open",
                                  !.g_pInputPort = fault \notin {"open", "input"},
                                  !.g_pOutputPort = fault \notin {"open", "input", "output"},
                                  !.active = fault = "none"]
       /\ pm' = IF fails THEN pm ELSE [pm EXCEPT !.currentSong = 1]
       /\ drv' = IF fails THEN drv
                 ELSE [drv EXCEPT !.g_pNextTimebaseEvent = getFirstTimebaseEvent(tbEvents)]
       /\ host' = IF fails THEN host
                  ELSE [host EXCEPT !.state = "Stopped", !.newPos = TRUE, !.req = Locate(0)]
       /\ last' = [NoCall EXCEPT !.op = "init", !.master = bTimebaseMaster,
                                 !.fault = IF already THEN "" ELSE fault,
                                 !.granted = ~fails /\ bTimebaseMaster /\ bGranted,
                                 !.already = already, !.ret = ~fails,
                                 !.calls = IF fails THEN <<>>
                                           ELSE (IF bTimebaseMaster
                                                 THEN <<"transportRequestTimebase">>
                                                 ELSE <<>>)
                                                \o <<"selectSong", "transportStop",
                                                     "transportLocate">>]
       /\ UNCHANGED <<pos, tbEvents, pulses, schedVars, mutexVars, patVars>>

\* The requested play state passed on as it came.
StoredPlayStateAsIs(rolling, state) == state

\* setPlayState, lines 941-954: the state handed to the pattern manager.
StoredPlayState(rolling, state) ==
    IF ~rolling /\ state = "STOPPING" THEN "STOPPED" ELSE state

\* PatternManager::setSequencePlayState: the sequence's play state set.
setSequencePlayState(playState, sequence, state) ==
    [playState EXCEPT ![sequence] = state]

\* setPlayState (lines 939-955), with setTransportToStartOfBar (1134-1143:
\* the position queried from the host, requested again with beat 1, tick 0)
\* and transportStart.
setPlayState(sequence, state) ==
    LET rolling == host.state = "Rolling"
        starts == ~rolling /\ state = "STARTING"
    IN /\ lib.active
       /\ pm' = [pm EXCEPT !.playState =
                               setSequencePlayState(@, sequence,
                                                    StoredPlayState(rolling, state))]
       /\ host' = IF starts
                  THEN [host EXCEPT !.newPos = TRUE,
                                    !.req = [pos EXCEPT !.beat = 1, !.tick = 0],
                                    !.state = "Rolling"]
                  ELSE host
       /\ last' = [NoCall EXCEPT !.op = "setPlayState", !.sequence = sequence,
                                 !.state = state, !.rolling = rolling,
                                 !.calls = <<"setSequencePlayState">>
                                           \o (IF starts
                                               THEN <<"setTransportToStartOfBar",
                                                      "transportStart">>
                                               ELSE <<>>)]
       /\ UNCHANGED <<lib, drv, pos, tbEvents, pulses, schedVars, mutexVars, patVars>>

\* A note-on on the trigger channel, whatever its velocity.
IsTriggerAnyVelocity(status, velocity, channel) ==
    status = MIDI_NOTE_ON + channel

\* Line 401: a note-on with a velocity on the trigger channel (the channel
\* is below 16, so the bitwise or is a sum).
IsTrigger(status, velocity, channel) ==
    status = MIDI_NOTE_ON + channel /\ velocity # 0

\* PatternManager::trigger: the sequence bound to the note, 0 if none.
trigger(note) == IF note = TriggerNote THEN TriggerSeq ELSE 0

\* Pattern::getNoteVelocity (pattern.cpp 87-93).
getNoteVelocity(events, step, note) ==
    IF \E e \in events : e.position = step /\ e.note = note
    THEN (CHOOSE e \in events : e.position = step /\ e.note = note).velocity
    ELSE 0

\* Pattern::addNote (pattern.cpp 65-72) with a duration of one step: addEvent
\* (17-43) drops the note of that step it overlaps and inserts the new one.
addNote(events, step, note, velocity) ==
    IF step >= PatternSteps \/ note > 127 \/ velocity > 127
    THEN events
    ELSE {e \in events : ~(e.position = step /\ e.note = note)}
         \cup {[position |-> step, note |-> note, velocity |-> velocity]}

\* Pattern::removeNote (pattern.cpp 74-77, deleteEvent 53-63).
removeNote(events, step, note) ==
    {e \in events : ~(e.position = step /\ e.note = note)}

\* Lines 406-424: the note of an input-channel note-on toggled at nStep.
ToggleNote(events, nStep, note, velocity) ==
    IF getNoteVelocity(events, nStep, note) # 0
    THEN removeNote(events, nStep, note)
    ELSE addNote(events, nStep, note, velocity)

\* onJackProcess (lines 340-476) with one note-on in the input buffer and
\* the drain after it.  result is the play state PatternManager::trigger
\* leaves the triggered sequence in (any, when no sequence is triggered).
onJackProcessMidi(channel, note, velocity, result) ==
    LET status == MIDI_NOTE_ON + channel
        bTrigger == IsTrigger(status, velocity, pm.triggerChannel)
        nSequence == IF bTrigger THEN trigger(note) ELSE 0
        playState1 == IF bTrigger /\ nSequence # 0
                      THEN [pm.playState EXCEPT ![nSequence] = result]
                      ELSE pm.playState
        bStart == bTrigger /\ playState1[nSequence] # "STOPPED"
        bInput == /\ pm.currentSong = 0
                  /\ lib.g_nInputChannel < 16
                  /\ status = MIDI_NOTE_ON + lib.g_nInputChannel
                  /\ velocity # 0
                  /\ lib.g_pPattern
        bStep == bInput /\ host.state # "Rolling"
    IN /\ lib.active
       /\ pm' = [pm EXCEPT !.playState = playState1,
                           !.events = IF bInput
                                      THEN ToggleNote(pm.events, pm.step, note, velocity)
                                      ELSE pm.events,
                           !.step = IF bStep
                                    THEN (IF pm.step + 1 >= PatternSteps THEN 0
                                          ELSE pm.step + 1)
                                    ELSE pm.step]
       /\ host' = IF bStart THEN [host EXCEPT !.state = "Rolling"] ELSE host
       /\ last' = [NoCall EXCEPT !.op = "onJackProcess", !.status = status,
                                 !.note = note, !.velocity = velocity,
                                 !.sequence = nSequence,
                                 !.rolling = host.state = "Rolling",
                                 !.calls = (IF bTrigger THEN <<"trigger">> ELSE <<>>)
                                           \o (IF bStart THEN <<"transportStart">>
                                               ELSE <<>>)
                                           \o (IF bInput THEN <<"toggleNote">>
                                               ELSE <<>>)
                                           \o (IF bStep THEN <<"setStep">> ELSE <<>>)]
       /\ Drain(MaxPeriod, MaxCap)
       /\ UNCHANGED <<lib, drv, pos, tbEvents, pulses, mutexVars, patVars>>

\* transportStop (lines 1241-1244).
transportStop ==
    /\ lib.active
    /\ host' = [host EXCEPT !.state = "Stopped"]
    /\ last' = [NoCall EXCEPT !.op = "transportStop"]
    /\ UNCHANGED <<lib, pm, drv, pos, tbEvents, pulses, schedVars, mutexVars, patVars>>

\* selectSong (lines 1155-1164).
selectSong(song) ==
    /\ lib.active
    /\ pm' = [pm EXCEPT !.currentSong = song]
    /\ drv' = [drv EXCEPT !.g_pNextTimebaseEvent = getFirstTimebaseEvent(tbEvents)]
    /\ last' = [NoCall EXCEPT !.op = "selectSong"]
    /\ UNCHANGED <<lib, pos, host, tbEvents, pulses, schedVars, mutexVars, patVars>>

\* selectPattern (lines 690-696): the pattern manager hands out the pattern.
selectPattern ==
    /\ lib.active
    /\ lib' = [lib EXCEPT !.g_pPattern = TRUE]
    /\ last' = [NoCall EXCEPT !.op = "selectPattern"]
    /\ UNCHANGED <<pm, tbVars, schedVars, mutexVars, patVars>>

\* The position the host holds when the library is loaded: one inside a
\* bar.
HostPosition ==
    [ZeroPos EXCEPT !.valid = TRUE, !.bar = 2, !.beat = 3, !.tick = 240,
                    !.beats_per_bar = 4, !.beat_type = 4,
                    !.ticks_per_beat = g_dTicksPerBeat,
                    !.beats_per_minute = DEFAULT_TEMPO]

NextControl ==
    \/ \E bTimebaseMaster \in BOOLEAN, fault \in InitFaults, bGranted \in BOOLEAN :
           init(bTimebaseMaster, fault, bGranted)
    \/ \E state \in PlayStates : setPlayState(TriggerSeq, state)
    \/ \E in \in MidiInputs, velocity \in InputVelocities, result \in PlayStates :
           onJackProcessMidi(in[1], in[2], velocity, result)
    \/ transportStop
    \/ \E song \in {0, 1} : selectSong(song)
    \/ selectPattern

(***************************************************************************)
(* Part 5: class Pattern (pattern.cpp): the events of a pattern and the    *)
(* calls that edit them.                                                   *)
(***************************************************************************)
MIDI_CONTROL == 176
MIDI_PROGRAM == 192

\* What getProgramChange returns for "no program change" (lines 143, 150).
NoProgram == 255

\* Most events a pattern of the model holds.
MaxPatEvents == 2
\* The steps the calls name.
Steps == 0 .. 2
\* Durations (in steps) handed to addNote: no step, one step, four steps.
Durations == {0, 1, 4}
\* The calls of addNote <<step, note, velocity, duration>>: note 60 with
\* velocity 100 and every duration at steps 0 and 1, the same at step 2
\* (past the end of a pattern of two steps), a note and a velocity out of
\* the MIDI range.
NoteCalls ==
    {<<step, 60, 100, duration>> : step \in {0, 1}, duration \in Durations}
    \cup {<<2, 60, 100, 1>>, <<0, 128, 100, 1>>, <<0, 60, 128, 1>>}
\* Semitones handed to transpose (60 + 67 = 127), and the note removeNote
\* is asked for.
Transpositions == {-67, 67}
RemovedNotes == {60}
\* The calls of addProgramChange <<step, program>>, and the steps, the
\* controller and the value of addControl.
ProgramCalls == {<<step, program>> : step \in {0, 2}, program \in {5, 6}} \cup {<<0, 128>>}
ControlSteps == {2}
Controller == 7
ControlValue == 64
\* Arguments of the constructor and of setBeatsInPattern / setStepsPerBeat.
CtorStepsPerBeat == {0, 4, 5}
BeatsValues == {0, 1, 2}
StepsPerBeatInputs == {2, 4, 5}

\* The values of the switch in setStepsPerBeat (lines 203-210).
StepsPerBeatValues == {1, 2, 3, 4, 6, 8, 12, 24}

\* StepEvent (pattern.h): the end values start as the start values.
StepEvent(position, command, value1, value2, duration) ==
    [position |-> position, command |-> command, value1start |-> value1,
     value1end |-> value1, value2start |-> value2, value2end |-> value2,
     duration |-> duration]

\* The defaults of addEvent's value2 and duration (pattern.h), used by
\* addProgramChange at line 125.
DefaultValue2 == 0
DefaultDuration == 1

\* std::vector::erase and insert at a 1-based index.
EraseAt(events, i) == SubSeq(events, 1, i - 1) \o SubSeq(events, i + 1, Len(events))
InsertAt(events, i, ev) ==
    SubSeq(events, 1, i - 1) \o <<ev>> \o SubSeq(events, i, Len(events))

\* Pattern::getSteps (lines 175-178), the bound the calls test steps against.
getSteps(p) == p.m_nBeats * p.m_nStepsPerBeat

\* Line 26: the test of an existing event (check) against the new event's
\* position and duration.
bOverlap(check, position, duration) ==
    LET nEventStart == position
        fEventEnd == nEventStart + duration
        nCheckStart == check.position
        fCheckEnd == nCheckStart + check.duration
    IN \/ (nCheckStart >= nEventStart /\ nCheckStart < fEventEnd)
       \/ (fCheckEnd > nEventStart /\ fCheckEnd <= fEventEnd)

\* Lines 20-33, the loop from iterator index i on.  After erase, `it` is one
\* before the element that followed the erased one and ++it reaches it.
\* When the erased element was the first, erase(it) - 1 is an iterator
\* before begin(): undefined behaviour.  With plain pointer iterators the
\* increment leads back to begin(); a build with checked iterators ends the
\* process there (trap).
RECURSIVE EraseOverlaps(_, _, _, _, _, _, _)
EraseOverlaps(events, i, position, command, value1, duration, trap) ==
    IF i > Len(events) THEN [events |-> events, aborted |-> FALSE]
    ELSE IF /\ bOverlap(events[i], position, duration)
            /\ events[i].command = command
            /\ events[i].value1start = value1
         THEN IF i = 1 /\ trap
              THEN [events |-> EraseAt(events, i), aborted |-> TRUE]
              ELSE EraseOverlaps(EraseAt(events, i), i, position, command, value1,
                                 duration, trap)
         ELSE EraseOverlaps(events, i + 1, position, command, value1, duration, trap)

\* Lines 35-40 with every event taken as later: the new event goes last.
InsertIndexLast(events, position) == Len(events) + 1

\* Lines 35-40: the first event with a position after the new one, or end().
InsertIndex(events, position) ==
    IF \E i \in DOMAIN events : events[i].position > position
    THEN CHOOSE i \in DOMAIN events :
             /\ events[i].position > position
             /\ \A j \in 1 .. (i - 1) : events[j].position <= position
    ELSE Len(events) + 1

\* Pattern::addEvent (lines 17-43).  Line 34 divides by getSteps(p), which
\* is not 0 in a pattern of at least one beat.
addEvent(p, position, command, value1, value2, duration, trap) ==
    LET r == EraseOverlaps(p.m_vEvents, 1, position, command, value1, duration, trap)
        it == InsertIndex(r.events, position)
    IN IF r.aborted
       THEN [pattern |-> [p EXCEPT !.m_vEvents = r.events], aborted |-> TRUE,
             itInserted |-> 0]
       ELSE [pattern |->
                 [p EXCEPT !.m_vEvents =
                      InsertAt(r.events, it,
                               StepEvent(position, command, value1, value2, duration))],
             aborted |-> FALSE, itInserted |-> it]

\* Pattern::deleteEvent (lines 53-63): the first event of that position,
\* command and value is erased.
deleteEvent(events, position, command, value1) ==
    LET Match(i) == /\ events[i].position = position
                    /\ events[i].command = command
                    /\ events[i].value1start = value1
    IN IF \E i \in DOMAIN events : Match(i)
       THEN EraseAt(events, CHOOSE i \in DOMAIN events :
                                Match(i) /\ \A j \in 1 .. (i - 1) : ~Match(j))
       ELSE events

\* What a call on the pattern leaves: the pattern, the bool returned, and
\* whether the process ended in it.
Returns(p, ret) == [pattern |-> p, ret |-> ret, aborted |-> FALSE]
Added(r) == [pattern |-> r.pattern, ret |-> ~r.aborted, aborted |-> r.aborted]

\* Line 68: the calls addNote refuses.
AddNoteRefused(p, step, note, velocity) ==
    step >= getSteps(p) \/ note > 127 \/ velocity > 127

\* Pattern::addNote (lines 65-72).
Pattern_addNote(p, step, note, velocity, duration, trap) ==
    IF AddNoteRefused(p, step, note, velocity)
    THEN Returns(p, FALSE)
    ELSE Added(addEvent(p, step, MIDI_NOTE_ON, note, velocity, duration, trap))

\* Pattern::removeNote (lines 74-77).
Pattern_removeNote(p, step, note) ==
    Returns([p EXCEPT !.m_vEvents = deleteEvent(p.m_vEvents, step, MIDI_NOTE_ON, note)],
            TRUE)

\* The note-on events of a step for a note (lines 90 and 100).
IsNoteAt(p, i, step, note) ==
    /\ p.m_vEvents[i].position = step
    /\ p.m_vEvents[i].command = MIDI_NOTE_ON
    /\ p.m_vEvents[i].value1start = note

\* Pattern::getNoteVelocity (lines 87-93) on the vector of events: the
\* velocity of the first such event, or 0.
Pattern_getNoteVelocity(p, step, note) ==
    IF \E i \in DOMAIN p.m_vEvents : IsNoteAt(p, i, step, note)
    THEN p.m_vEvents[CHOOSE i \in DOMAIN p.m_vEvents :
                         /\ IsNoteAt(p, i, step, note)
                         /\ \A j \in 1 .. (i - 1) : ~IsNoteAt(p, j, step, note)].value2start
    ELSE 0

\* Pattern::setNoteVelocity (lines 95-105).  The loop "for(StepEvent ev :
\* m_vEvents)" hands each event to the body as a copy: setValue2start at line
\* 102 sets the velocity of the copy, and the vector is left as it was on
\* every path.  What is noted as returned is whether line 102 was reached.
Pattern_setNoteVelocity(p, step, note, velocity) ==
    LET found == /\ velocity <= 127
                 /\ \E i \in DOMAIN p.m_vEvents : IsNoteAt(p, i, step, note)
    IN Returns(p, found)

\* Pattern::getProgramChange (lines 140-151): the first program change of
\* the step.
getProgramChange(p, step) ==
    LET Match(i) == /\ p.m_vEvents[i].position = step
                    /\ p.m_vEvents[i].command = MIDI_PROGRAM
    IN IF step >= getSteps(p) THEN NoProgram
       ELSE IF \E i \in DOMAIN p.m_vEvents : Match(i)
            THEN p.m_vEvents[CHOOSE i \in DOMAIN p.m_vEvents :
                                 Match(i) /\ \A j \in 1 .. (i - 1) : ~Match(j)].value1start
            ELSE NoProgram

\* Lines 129-138 with nothing removed.
removeProgramChangeNever(p, step) == Returns(p, FALSE)

\* Pattern::removeProgramChange (lines 129-138).
removeProgramChange(p, step) ==
    IF step >= getSteps(p) THEN Returns(p, FALSE)
    ELSE LET program == getProgramChange(p, step)
         IN IF program = NoProgram THEN Returns(p, FALSE)
            ELSE Returns([p EXCEPT !.m_vEvents =
                              deleteEvent(p.m_vEvents, step, MIDI_PROGRAM, program)],
                         TRUE)

\* Pattern::addProgramChange (lines 120-127).
addProgramChange(p, step, program, trap) ==
    IF step >= getSteps(p) \/ program > 127
    THEN Returns(p, FALSE)
    ELSE Added(addEvent(removeProgramChange(p, step).pattern, step, MIDI_PROGRAM,
                        program, DefaultValue2, DefaultDuration, trap))

\* Pattern::addControl (lines 153-162); it returns nothing, ret tells
\* whether it got past line 157.
addControl(p, step, control, valueStart, valueEnd, duration, trap) ==
    IF \/ step > getSteps(p)
       \/ control > 127
       \/ valueStart > 127
       \/ valueEnd > 127
       \/ duration > getSteps(p)
    THEN Returns(p, FALSE)
    ELSE LET r == addEvent(p, step, MIDI_CONTROL, control, valueStart, duration, trap)
         IN IF r.aborted THEN Added(r)
            ELSE Added([r EXCEPT !.pattern.m_vEvents[r.itInserted].value2end = valueEnd])

\* Pattern::setStepsPerBeat (lines 193-223).  The fScale of line 199 is a
\* second variable that ends with its branch, so the fScale of line 195
\* stays 1.0; and the loop of lines 217-221 scales copies of the events
\* (StepEvent ev), which leaves m_vEvents as it is.
setStepsPerBeat(p, value) ==
    LET p1 == IF p.m_nStepsPerBeat = 0 \/ p.m_nStepsPerBeat > 24
             THEN [p EXCEPT !.m_nStepsPerBeat = 4]
             ELSE p
    IN IF value \in StepsPerBeatValues
       THEN Returns([p1 EXCEPT !.m_nStepsPerBeat = value], TRUE)
       ELSE Returns(p1, FALSE)

\* Pattern::Pattern (lines 6-11).
Pattern(beats, stepsPerBeat) ==
    setStepsPerBeat([m_nBeats |-> beats, m_nStepsPerBeat |-> stepsPerBeat,
                     m_vEvents |-> <<>>], stepsPerBeat).pattern

\* Line 238 with > for >=: an event at the end itself is kept.
PastEndStrict(p, i) == p.m_vEvents[i].position > getSteps(p)

\* Line 238: the event is at or after the end of the pattern.
PastEnd(p, i) == p.m_vEvents[i].position >= getSteps(p)

\* Pattern::setBeatsInPattern (lines 230-241): the vector is cut at the
\* first event at or after the end.
setBeatsInPattern(p, beats) ==
    LET p1 == IF beats > 0 THEN [p EXCEPT !.m_nBeats = beats] ELSE p
        nIndex == IF \E i \in DOMAIN p1.m_vEvents : PastEnd(p1, i)
                  THEN (CHOOSE i \in DOMAIN p1.m_vEvents :
                            PastEnd(p1, i) /\ \A j \in 1 .. (i - 1) : ~PastEnd(p1, j)) - 1
                  ELSE Len(p1.m_vEvents)
    IN Returns([p1 EXCEPT !.m_vEvents = SubSeq(p1.m_vEvents, 1, nIndex)], TRUE)

\* Lines 271-278 without the test: no transposition is refused.
TransposeRefusedNever(events, value) == FALSE

\* Lines 271-278: some note would leave 0..127.
TransposeRefused(events, value) ==
    \E i \in DOMAIN events :
        /\ events[i].command = MIDI_NOTE_ON
        /\ (events[i].value1start + value > 127 \/ events[i].value1start + value < 0)

\* Lines 280-296: the notes in range are moved; a note out of range would
\* be erased (line 289), which the test of lines 271-278 excludes.
RECURSIVE TransposeEvents(_, _)
TransposeEvents(events, value) ==
    IF events = <<>> THEN <<>>
    ELSE LET ev == Head(events)
             note == ev.value1start + value
         IN IF ev.command # MIDI_NOTE_ON
            THEN <<ev>> \o TransposeEvents(Tail(events), value)
            ELSE IF note > 127 \/ note < 0
                 THEN TransposeEvents(Tail(events), value)
                 ELSE <<[ev EXCEPT !.value1start = note, !.value1end = note]>>
                      \o TransposeEvents(Tail(events), value)

\* Pattern::transpose (lines 268-297); ret tells whether it got past the
\* test.
transpose(p, value) ==
    IF TransposeRefused(p.m_vEvents, value) THEN Returns(p, FALSE)
    ELSE Returns([p EXCEPT !.m_vEvents = TransposeEvents(p.m_vEvents, value)], TRUE)

\* Pattern::clear (lines 329-332).
clear(p) == Returns([p EXCEPT !.m_vEvents = <<>>], TRUE)

\* No call on the pattern yet.
NoEdit == [op |-> "", step |-> 0, value1 |-> 0, value2 |-> 0, duration |-> 0,
           arg |-> 0, before |-> Pattern(1, 4), ret |-> FALSE, aborted |-> FALSE]

\* A pattern of one beat nobody edits.
PatternIdle == pattern = Pattern(1, 4) /\ call = NoEdit

\* A pattern as its constructor leaves it.
PatternInit ==
    /\ \E stepsPerBeat \in CtorStepsPerBeat : pattern = Pattern(1, stepsPerBeat)
    /\ call = [NoEdit EXCEPT !.op = "Pattern", !.before = pattern]

\* A call on the pattern: r is what the method leaves.  No call follows one
\* in which the process ended, and the calls of the model leave no more
\* than MaxPatEvents events.
Call(op, step, value1, value2, duration, arg, r) ==
    \E res \in {r} :
        /\ ~call.aborted
        /\ Len(res.pattern.m_vEvents) <= MaxPatEvents
        /\ pattern' = res.pattern
        /\ call' = [op |-> op, step |-> step, value1 |-> value1, value2 |-> value2,
                    duration |-> duration, arg |-> arg, before |-> pattern,
                    ret |-> res.ret, aborted |-> res.aborted]
        /\ UNCHANGED <<schedVars, mutexVars, tbVars, inVars>>

\* Whether the process ends where addEvent forms the iterator before
\* begin(): either way when it does form it.
Traps(events, position, command, value1, duration) ==
    IF EraseOverlaps(events, 1, position, command, value1, duration, TRUE).aborted
    THEN BOOLEAN
    ELSE {FALSE}

CallAddNote ==
    \E in \in NoteCalls :
        \E trap \in Traps(pattern.m_vEvents, in[1], MIDI_NOTE_ON, in[2], in[4]) :
            Call("addNote", in[1], in[2], in[3], in[4], 0,
                 Pattern_addNote(pattern, in[1], in[2], in[3], in[4], trap))

CallRemoveNote ==
    \E step \in Steps, note \in RemovedNotes :
        Call("removeNote", step, note, 0, 0, 0, Pattern_removeNote(pattern, step, note))

CallAddProgramChange ==
    \E in \in ProgramCalls :
        \E trap \in Traps(removeProgramChange(pattern, in[1]).pattern.m_vEvents, in[1],
                          MIDI_PROGRAM, in[2], DefaultDuration) :
            Call("addProgramChange", in[1], in[2], 0, 0, 0,
                 addProgramChange(pattern, in[1], in[2], trap))

CallRemoveProgramChange ==
    \E step \in Steps :
        Call("removeProgramChange", step, 0, 0, 0, 0, removeProgramChange(pattern, step))

CallAddControl ==
    \E step \in ControlSteps :
        \E trap \in Traps(pattern.m_vEvents, step, MIDI_CONTROL, Controller, 1) :
            Call("addControl", step, Controller, ControlValue, 1, 0,
                 addControl(pattern, step, Controller, ControlValue, ControlValue, 1,
                            trap))

CallSetStepsPerBeat ==
    \E value \in StepsPerBeatInputs :
        Call("setStepsPerBeat", 0, 0, 0, 0, value, setStepsPerBeat(pattern, value))

CallSetBeatsInPattern ==
    \E beats \in BeatsValues :
        Call("setBeatsInPattern", 0, 0, 0, 0, beats, setBeatsInPattern(pattern, beats))

CallTranspose ==
    \E value \in Transpositions :
        Call("transpose", 0, 0, 0, 0, value, transpose(pattern, value))

CallClear == Call("clear", 0, 0, 0, 0, 0, clear(pattern))

NextPattern ==
    \/ CallAddNote
    \/ CallRemoveNote
    \/ CallAddProgramChange
    \/ CallRemoveProgramChange
    \/ CallAddControl
    \/ CallSetStepsPerBeat
    \/ CallSetBeatsInPattern
    \/ CallTranspose
    \/ CallClear

Init == SchedInit /\ MutexInit /\ TimebaseInit /\ InputInit /\ PatternIdle

(***************************************************************************)
(* A song with its timebase map, started and rolling from frame 0.         *)
(***************************************************************************)
\* A sample rate at which a clock is not a whole number of frames.
OddRate == 3880
SongRates == {InitRate, OddRate}

TempoEvent(tempo, bar) == [bar |-> bar, clock |-> 0, type |-> "TEMPO", value |-> tempo]
TimeSigEvent(beats, type, bar) ==
    [bar |-> bar, clock |-> 0, type |-> "TIMESIG", value |-> (beats * 256 + type) % 65536]

\* Tempo 120 from bar 1 and 60 from bar 2.
TempoChangeMap == TbInsert(TbInsert(<<>>, TempoEvent(120, 1)), TempoEvent(60, 2))

\* The maps of the songs: none, one tempo for the whole song, a tempo change
\* at bar 2, and one time signature from bar 1 or bar 2.
SongMaps ==
    {<<>>, <<TempoEvent(60, 1)>>, TempoChangeMap}
    \cup {<<TimeSigEvent(beats, type, bar)>> :
              beats \in {3, 4}, type \in {4, 8, 16}, bar \in {1, 2}}

\* The state setTempo / setTimeSig (lines 1028-1055), addPattern, startSong
\* and transportStart leave after init(), at a sample rate the host reported.
SongInit ==
    /\ SchedInit
    /\ MutexInit
    /\ InputInit
    /\ PatternIdle
    /\ \E evs \in SongMaps, nFrames \in SongRates, bFast \in BOOLEAN :
           /\ drv = [g_nSampleRate |-> nFrames, g_dTempo |-> DEFAULT_TEMPO,
                     g_dFramesPerClock |-> getFramesPerClock(nFrames, DEFAULT_TEMPO),
                     g_bTimebaseChanged |-> evs # <<>>,
                     g_pNextTimebaseEvent |-> getFirstTimebaseEvent(evs),
                     g_nBar |-> 1, g_nBeat |-> 1, g_nTick |-> 0, g_nClock |-> 0,
                     g_nFramesToNextClock |-> 0, g_nTransportStartFrame |-> 0,
                     g_fBeatsPerBar |-> 4, g_fBeatType |-> 4,
                     g_nSongStatus |-> IF bFast THEN "PLAYING" ELSE "STARTING",
                     g_nSongPosition |-> 0,
                     g_nSongLength |-> SongLength, g_bPlaying |-> FALSE]
           /\ tbEvents = evs
    /\ pos = ZeroPos
    /\ host = [state |-> "Rolling", newPos |-> TRUE, req |-> Locate(0), cycle |-> 0,
               ops |-> 0]
    /\ pulses = <<>>

\* Frames the song is relocated to: its start, and a place in the fourth
\* beat of a bar of four.
LocateFrames == {0, 3 * Period}

\* The periods of the rolling song, and a client relocating it.
NextSong ==
    \/ \E bPlaying \in BOOLEAN : onJackTimebase(bPlaying)
    \/ \E frame \in LocateFrames : transportLocate(frame)

SpecSong == SongInit /\ [][NextSong]_vars

\* The library before init(), in a host that holds some position.
ControlInit ==
    /\ SchedInit
    /\ MutexInit
    /\ InputInit
    /\ PatternIdle
    /\ TransportInit
    /\ pos = HostPosition

\* The control surface and the MIDI input.
SpecControl == ControlInit /\ [][NextControl]_vars

\* The schedule fed by the direct MIDI interface and by the sequences, and
\* drained by the process cycles.
Next ==
    \/ sendMidiStart
    \/ \E d \in 0 .. MaxPeriod : PatternClock((frameTime + d) % FrameMod)
    \/ \E nFrames \in 1 .. MaxPeriod, cap \in 0 .. MaxCap : onJackProcess(nFrames, cap)

Spec == Init /\ [][Next]_vars

\* The same with playNote and its note-off timer threads.
NextNotes ==
    \/ sendMidiStart
    \/ \E note \in {60, 128}, duration \in {0, 1} : playNote(note, 100, 0, duration)
    \/ \E t \in timers : noteOffTimer(t)
    \/ \E d \in 0 .. MaxPeriod : PatternClock((frameTime + d) % FrameMod)
    \/ \E nFrames \in 1 .. MaxPeriod, cap \in 0 .. MaxCap : onJackProcess(nFrames, cap)

SpecNotes == Init /\ [][NextNotes]_vars

\* The threads around the schedule flag.
SpecMutex == Init /\ [][NextMutex]_vars

\* The transport / timebase driver.
SpecTimebase == Init /\ [][NextTimebase]_vars

\* The library before init() with a pattern as the constructor leaves it.
PatternSpecInit == SchedInit /\ MutexInit /\ TimebaseInit /\ InputInit /\ PatternInit

\* A pattern under the calls of its editor.
SpecPattern == PatternSpecInit /\ [][NextPattern]_vars

\* The calls of setNoteVelocity <<step, note, velocity>>: note 60 at the
\* steps of addNote with a velocity in and out of the MIDI range, a note no
\* step holds, and the velocity addNote gives.
VelocityCalls ==
    {<<step, 60, velocity>> : step \in {0, 1}, velocity \in {64, 100, 128}}
    \cup {<<0, 61, 64>>}

CallSetNoteVelocity ==
    \E in \in VelocityCalls :
        Call("setNoteVelocity", in[1], in[2], in[3], 0, 0,
             Pattern_setNoteVelocity(pattern, in[1], in[2], in[3]))

NextVelocity ==
    \/ CallAddNote
    \/ CallRemoveNote
    \/ CallSetNoteVelocity

\* A pattern whose notes are added, removed and given a velocity.
SpecVelocity == PatternSpecInit /\ [][NextVelocity]_vars

(***************************************************************************)
(* The drain over the cycles of a long run.  The host's frame counter, a   *)
(* uint32_t, wraps after 2^32 frames only; the cycles before that are      *)
(* taken here.  sendMidiMsg takes its keys from 0, so the keys in the      *)
(* schedule are below MaxMsgs, and once nNow has reached LateTime every    *)
(* entry is a late one and the drain does the same whatever nNow is: the   *)
(* times LateTime .. LastTime stand, in turn, for all the times from then  *)
(* on.                                                                     *)
(***************************************************************************)
LateTime == MaxMsgs
LastTime == FrameMod - MaxPeriod - 1

\* jack_last_frame_time of the cycle after the one at nNow.
NextFrameTime(nNow, nFrames) ==
    IF nNow + nFrames > LastTime THEN LateTime ELSE nNow + nFrames

\* onJackProcess(nFrames) with no MIDI input, in a host whose buffer size is
\* the same at every cycle and whose output buffer takes every event
\* reserved (at most nFrames of them, one for a frame).
onJackProcessCycle(nFrames) ==
    LET nNow == frameTime
        keys == SortedKeys(DOMAIN g_mSchedule)
        res == DrainLoop(g_mSchedule, keys, 1, 0, <<>>, nNow, nFrames, nFrames)
    IN /\ cycFrames \in {0, nFrames}
       /\ g_mSchedule' = AfterDrain(g_mSchedule, keys, res)
       /\ outBuf' = res.out
       /\ drainExit' = IF keys = <<>> THEN "empty" ELSE res.exit
       /\ cycNow' = nNow
       /\ cycFrames' = nFrames
       /\ frameTime' = NextFrameTime(nNow, nFrames)
       /\ UNCHANGED <<nAlloc, timers>>
       /\ UNCHANGED notSched

\* The process cycles of the host.
ProcessCycle == \E nFrames \in 1 .. MaxPeriod : onJackProcessCycle(nFrames)

NextDrain ==
    \/ sendMidiStart
    \/ ProcessCycle

\* The direct MIDI interface and the process cycles, which keep running: the
\* host calls onJackProcess once in every period.
SpecDrain == Init /\ [][NextDrain]_vars /\ WF_vars(ProcessCycle)

(***************************************************************************)
(* The timebase callback with its pulse walk taken as a loop that may not  *)
(* end, under the tempos and sample rates the control interface hands in.  *)
(***************************************************************************)
\* A tempo above 2.5 times every sample rate of Rates: less than one frame
\* for a clock.
FastTempo == 6 * InitRate
WalkTempos == {DEFAULT_TEMPO, FastTempo}

\* The loop of lines 282-313 entered with a re-arm value of zero frames:
\* after the first pulse g_nFramesToNextClock is uint32(g_dFramesPerClock)
\* = 0 and nRemainingFrames, reduced by nothing, stays above it, so the
\* test of line 282 is true at every later pulse.
WalkUnending(d, nRemainingFrames) ==
    /\ d.g_nFramesToNextClock < nRemainingFrames
    /\ ToUint(d.g_dFramesPerClock) = 0

\* updateBBT, line 120: "position->frame % uint32_t(dFramesPerTick)" with
\* less than one frame for a tick is an integer division by zero.
DividesByZero(d) == ToUint(getFramesPerTick(d.g_nSampleRate, d.g_dTempo)) = 0

\* onJackTimebase (lines 194-324) as the realtime thread runs it: it comes
\* back, or the thread stays in the pulse walk.  The division by zero of
\* updateBBT is undefined: the process is ended by the trap, or the callback
\* goes on (the value of line 120 is overwritten at line 169).
TimebaseCallback(bPlaying) ==
    LET bUpdate == host.newPos
        pIn == IF bUpdate THEN host.req
               ELSE [pos EXCEPT !.frame = pos.frame + Period]
        c1 == ConsumeEvents(drv, pIn, tbEvents)
        moved == bUpdate \/ c1.d.g_bTimebaseChanged
        c2 == IF moved
              THEN Reposition(c1.d, c1.p, tbEvents, host.cycle * Period)
              ELSE CarryOver(c1.d, c1.p)
        byZero == moved /\ ~c1.p.valid /\ DividesByZero(RereadTimebase(c1.d, tbEvents))
    IN \E trap \in (IF byZero THEN BOOLEAN ELSE {FALSE}) :
          /\ rt = "idle"
          /\ IF trap \/ (host.state = "Rolling" /\ WalkUnending(c2.d, Period))
             THEN /\ host.cycle < MaxCycles
                  /\ rt' = IF trap THEN "trap" ELSE "walk"
                  /\ drv' = IF trap THEN c1.d ELSE c2.d
                  /\ pos' = IF trap THEN pos ELSE c2.p
                  /\ host' = [host EXCEPT !.newPos = FALSE, !.cycle = @ + 1]
                  /\ UNCHANGED <<tbEvents, pulses, schedVars, inVars, patVars>>
                  /\ UNCHANGED <<g_bMutex, rtIt, ctl, ctlTime, ctlMsg>>
             ELSE onJackTimebase(bPlaying)

\* The calls of the control interface and of the host, for as long as the
\* realtime thread comes back from the callback.
WalkSampleRate(nFrames) == rt = "idle" /\ onJackSampleRateChange(nFrames)
WalkTransportTempo(tempo) == rt = "idle" /\ transportSetTempo(tempo)
WalkSongTempo(tempo) == rt = "idle" /\ setTempo(tempo, 1, 0)
WalkStart == rt = "idle" /\ transportStart

NextWalk ==
    \/ \E bPlaying \in BOOLEAN : TimebaseCallback(bPlaying)
    \/ \E nFrames \in Rates : WalkSampleRate(nFrames)
    \/ \E tempo \in WalkTempos : WalkTransportTempo(tempo)
    \/ \E tempo \in WalkTempos : WalkSongTempo(tempo)
    \/ WalkStart

\* The timebase driver under tempo and sample-rate changes.
SpecWalk == Init /\ [][NextWalk]_vars

(***************************************************************************)
(* The timebase callback taken one clock pulse at a time, with the song    *)
(* controls, the realtime messages of the MIDI input and a client that     *)
(* repositions the transport with a BBT of its own.                        *)
(***************************************************************************)
\* The periods of a run in which the walk is taken pulse by pulse.
PulseCycles == 3

\* Lines 288-291: the pulse is on a beat; it is the sync pulse.
OnBeat(d) == d.g_nClock = 0
SyncPulseOnAnyBeat(d) == OnBeat(d)
SyncPulse(d) == OnBeat(d) /\ d.g_nBeat = 1

\* Line 293: the song position counted on and compared with the length.
SongEnds(d) ==
    /\ d.g_nSongStatus = "PLAYING"
    /\ d.g_nSongPosition + 1 > d.g_nSongLength

\* Line 293: the song position after a pulse.
CountedOn(d) ==
    IF OnBeat(d) /\ d.g_nSongStatus = "PLAYING"
    THEN d.g_nSongPosition + 1
    ELSE d.g_nSongPosition

\* Lines 302-311: the clock, the beat and the bar counted on.
WrapClock(d) == (d.g_nClock + 1) % 256 > ClocksPerBeat - 1
WrapBeat(d) == WrapClock(d) /\ d.g_nBeat + 1 > d.g_fBeatsPerBar
BarCounted(d, status) == WrapBeat(d) /\ status = "PLAYING"

\* Lines 284-312: one turn of the loop of the pulse walk.
Pulse(d, bPlaying) ==
    LET status1 == IF OnBeat(d) /\ SongEnds(d) THEN "STOPPED" ELSE d.g_nSongStatus
        status2 == IF SyncPulse(d) /\ status1 = "STARTING" THEN "PLAYING" ELSE status1
    IN [d EXCEPT !.g_nTick = IF OnBeat(d) THEN g_dTicksPerBeat * (d.g_nBeat - 1)
                             ELSE d.g_nTick,
                 !.g_nSongPosition = CountedOn(d),
                 !.g_nSongStatus = status2,
                 !.g_bPlaying = bPlaying,
                 !.g_nFramesToNextClock = ToUint(d.g_dFramesPerClock),
                 !.g_nClock = IF WrapClock(d) THEN 0 ELSE d.g_nClock + 1,
                 !.g_nBeat = IF WrapBeat(d) THEN 1
                             ELSE IF WrapClock(d) THEN d.g_nBeat + 1
                             ELSE d.g_nBeat,
                 !.g_nBar = IF BarCounted(d, status2) THEN d.g_nBar + 1 ELSE d.g_nBar]

\* nRemainingFrames of line 196 and line 300 after the pulses walked so far
\* in this period.
RemainingFrames ==
    IF pulses = <<>> THEN Period ELSE Period - pulses[Len(pulses)].offset

\* bSync of lines 281 and 285 after the pulses walked so far.
LastSync == pulses # <<>> /\ pulses[Len(pulses)].sync

\* Lines 194-281: the callback up to the pulse walk.  With the transport
\* stopped it returns there.
EnterTimebase ==
    LET bUpdate == host.newPos
        pIn == IF bUpdate THEN host.req
               ELSE [pos EXCEPT !.frame = pos.frame + Period]
        c1 == ConsumeEvents(drv, pIn, tbEvents)
        c2 == IF bUpdate \/ c1.d.g_bTimebaseChanged
              THEN Reposition(c1.d, c1.p, tbEvents, host.cycle * Period)
              ELSE CarryOver(c1.d, c1.p)
        rolling == host.state = "Rolling"
    IN /\ rt = "idle"
       /\ host.cycle < PulseCycles
       /\ rolling \/ host.newPos
       /\ drv' = c2.d
       /\ pos' = c2.p
       /\ pulses' = <<>>
       /\ rt' = IF rolling THEN "clock" ELSE "idle"
       /\ host' = [host EXCEPT !.newPos = FALSE,
                               !.req = Locate(0),
                               !.cycle = IF rolling THEN @ ELSE @ + 1]
       /\ UNCHANGED <<tbEvents, schedVars, inVars, patVars>>
       /\ UNCHANGED <<g_bMutex, rtIt, ctl, ctlTime, ctlMsg>>

\* Lines 282-313: a pulse of the walk.  bPlaying is what
\* PatternManager::clock returns.  Of the pulses of the period the latest is
\* noted: the frames from the start of the period to it, and bSync.
WalkPulse(bPlaying) ==
    /\ rt = "clock"
    /\ drv.g_nFramesToNextClock < RemainingFrames
    /\ drv' = Pulse(drv, bPlaying)
    /\ pulses' = <<[offset |-> Period - RemainingFrames + drv.g_nFramesToNextClock,
                    sync |-> SyncPulse(drv)]>>
    /\ UNCHANGED <<pos, host, tbEvents, schedVars, mutexVars, inVars, patVars>>

\* Lines 314-323: the walk is over and the callback returns.
LeaveTimebase ==
    LET r == AfterWalk([d |-> drv, nRemainingFrames |-> RemainingFrames,
                        bSync |-> LastSync, out |-> pulses])
    IN /\ rt = "clock"
       /\ ~(drv.g_nFramesToNextClock < RemainingFrames)
       /\ drv' = r.d
       /\ host' = [host EXCEPT !.state = IF r.stop THEN "Stopped" ELSE @,
                               !.newPos = r.stop \/ @,
                               !.req = IF r.stop THEN Locate(0) ELSE @,
                               !.cycle = @ + 1]
       /\ rt' = "idle"
       /\ UNCHANGED <<pos, tbEvents, pulses, schedVars, inVars, patVars>>
       /\ UNCHANGED <<g_bMutex, rtIt, ctl, ctlTime, ctlMsg>>

\* The positions <<bar, beat, tick, ticks_per_beat>> a client of the host
\* asks for with a BBT of its own.
HostBBTs ==
    {<<1, 4, g_dTicksPerBeat - 1, g_dTicksPerBeat>>,
     <<2, 1, g_dTicksPerBeat \div 2, g_dTicksPerBeat \div 2>>,
     <<1, 2, g_dTicksPerBeat, 2 * g_dTicksPerBeat>>}

\* The host hands the position a client asked for to the next timebase
\* callback in pPosition (line 195), with bUpdate set.
hostReposition(bbt) ==
    /\ rt = "idle"
    /\ host.ops < MaxOps
    /\ host' = [host EXCEPT !.ops = @ + 1,
                            !.newPos = TRUE,
                            !.req = [ZeroPos EXCEPT !.valid = TRUE,
                                                    !.bar = bbt[1],
                                                    !.beat = bbt[2],
                                                    !.tick = bbt[3],
                                                    !.beats_per_bar = DEFAULT_TIMESIG \div 256,
                                                    !.beat_type = DEFAULT_TIMESIG % 256,
                                                    !.ticks_per_beat = bbt[4],
                                                    !.beats_per_minute = DEFAULT_TEMPO]]
    /\ UNCHANGED <<drv, pos, tbEvents, pulses, schedVars, mutexVars, inVars, patVars>>

\* startSong (lines 1093-1097) between two callbacks.
songStart(bFast) == rt = "idle" /\ startSong(bFast)

\* pauseSong (lines 1099-1103).  The calls of the control interface are taken
\* between two callbacks.
pauseSong ==
    /\ rt = "idle"
    /\ drv' = [drv EXCEPT !.g_nSongStatus = "STOPPED"]
    /\ UNCHANGED <<pos, host, tbEvents, pulses, schedVars, mutexVars, inVars, patVars>>

\* stopSong (lines 1105-1111), with its setSongPosition(0).
stopSong ==
    /\ rt = "idle"
    /\ drv' = [drv EXCEPT !.g_nSongStatus = "STOPPED", !.g_nSongPosition = 0]
    /\ UNCHANGED <<pos, host, tbEvents, pulses, schedVars, mutexVars, inVars, patVars>>

\* The value of a Song Position Pointer (line 388).
SongPointer(lsb, msb) == (lsb + msb * 128) * 6

\* The realtime messages of the input, with the data bytes of MIDI_POSITION.
SongMessages ==
    {<<"MIDI_STOP", 0, 0>>, <<"MIDI_START", 0, 0>>, <<"MIDI_CONTINUE", 0, 0>>,
     <<"MIDI_POSITION", 3, 1>>}

\* onJackProcess, lines 365-392: a realtime message of the MIDI input, in
\* the process cycle that precedes the timebase callback.  bFast is the
\* default argument of startSong(), which its declaration gives.
onJackProcessSong(msg, bFast) ==
    LET started == IF bFast THEN "PLAYING" ELSE "STARTING"
    IN /\ rt = "idle"
       /\ drv' = CASE msg[1] = "MIDI_STOP" ->
                          [drv EXCEPT !.g_nSongStatus = "STOPPED"]
                   [] msg[1] = "MIDI_START" ->
                          [drv EXCEPT !.g_nSongStatus = started, !.g_nSongPosition = 0]
                   [] msg[1] = "MIDI_CONTINUE" ->
                          [drv EXCEPT !.g_nSongStatus = started]
                   [] msg[1] = "MIDI_POSITION" ->
                          [drv EXCEPT !.g_nSongPosition = SongPointer(msg[2], msg[3])]
       /\ UNCHANGED <<pos, host, tbEvents, pulses, schedVars, mutexVars, inVars, patVars>>

NextPulse ==
    \/ EnterTimebase
    \/ \E bPlaying \in BOOLEAN : WalkPulse(bPlaying)
    \/ LeaveTimebase
    \/ \E bbt \in HostBBTs : hostReposition(bbt)
    \/ addPattern
    \/ \E bFast \in BOOLEAN : songStart(bFast)
    \/ pauseSong
    \/ stopSong
    \/ \E msg \in SongMessages, bFast \in BOOLEAN : onJackProcessSong(msg, bFast)
    \/ transportStart

\* The timebase driver pulse by pulse.
SpecPulse == Init /\ [][NextPulse]_vars

(***************************************************************************)
(* The two position conversions: a client locates the stopped transport at *)
(* the frame of a bar, beat and tick, and the timebase callback computes   *)
(* the bar, beat and tick of that frame.                                   *)
(***************************************************************************)
\* The positions <<bar, beat, tick>> located: beats of the default time
\* signature, ticks below g_dTicksPerBeat.
LocateBBTs ==
    {<<bar, beat, tick>> : bar \in {1, 2}, beat \in {1, 2, DEFAULT_TIMESIG \div 256},
                           tick \in {0, 1, 2, g_dTicksPerBeat - 1}}

\* transportLocate(transportGetLocation(bar, beat, tick)), lines 1182-1222.
locateBBT(bbt) ==
    transportLocate(transportGetLocation(drv.g_nSampleRate, bbt[1], bbt[2], bbt[3]))

\* The callback of a stopped transport: it is called for the new position.
locatedTimebase == host.state = "Stopped" /\ onJackTimebase(FALSE)

NextLocate ==
    \/ \E bbt \in LocateBBTs : locateBBT(bbt)
    \/ locatedTimebase

SpecLocate == Init /\ [][NextLocate]_vars

(***************************************************************************)
(* Properties of the schedule and its drain.                               *)
(***************************************************************************)
\* A step of the behaviour that is a process cycle (only onJackProcess moves
\* the frame time, and it always does).
IsCycle == frameTime' # frameTime

OutKeys(out) == {out[i].key : i \in 1 .. Len(out)}

\* The messages still waiting in the schedule.
Waiting(sched) == {sched[k] : k \in {x \in DOMAIN sched : sched[x] # NULL}}

\* The messages in an output buffer (a NULL entry reserves an event and
\* writes no message into it).
Written(out) == {out[i].msg : i \in {x \in 1 .. Len(out) : out[x].msg # NULL}}

\* C1: in one process cycle the drain writes the entries in ascending key
\* order and at strictly increasing offsets inside the period: each event is
\* at least one sample after the one before it, so no two share an offset.
C1_DrainOrdered ==
    \A i, j \in 1 .. Len(outBuf) :
        i < j => /\ outBuf[i].key < outBuf[j].key
                 /\ outBuf[i].time + 1 <= outBuf[j].time
                 /\ outBuf[j].time < cycFrames

\* A cycle in which an on-time entry was moved one sample later because the
\* offset it asked for was taken.
C1_Witness ==
    /\ Len(outBuf) >= 2
    /\ \E i \in 2 .. Len(outBuf) :
          /\ outBuf[i].key >= cycNow
          /\ outBuf[i].time > outBuf[i].key - cycNow

\* C2: when the reservation of an output event fails, the drain stops at
\* that entry: it and every later entry stay in the schedule with their
\* messages as they were, and exactly the entries written in this cycle are
\* removed.
C2_ReserveFailKeepsRest ==
    [][(IsCycle /\ drainExit' = "nobuf") =>
          /\ DOMAIN g_mSchedule' = (DOMAIN g_mSchedule) \ OutKeys(outBuf')
          /\ DOMAIN g_mSchedule' # {}
          /\ \A k \in DOMAIN g_mSchedule' :
                /\ g_mSchedule'[k] = g_mSchedule[k]
                /\ \A w \in OutKeys(outBuf') : w < k]_vars

\* A drain that wrote an entry, was refused the next one and left two behind.
C2_Witness ==
    /\ drainExit = "nobuf"
    /\ Len(outBuf) >= 1
    /\ Cardinality(DOMAIN g_mSchedule) >= 2

\* C3 (as claimed): of any two messages handed to sendMidiMsg, the one handed
\* over first is written to the output first: a cycle never writes a message
\* while one handed over earlier still waits, and within a cycle the
\* messages go out in the order they were handed over.
C3_SendOrderKept ==
    [][IsCycle =>
          /\ \A b \in Written(outBuf'), a \in Waiting(g_mSchedule') :
                (a.src # "clock" /\ b.src # "clock") => b.id < a.id
          /\ \A i, j \in 1 .. Len(outBuf') :
                (/\ i < j
                 /\ outBuf'[i].msg # NULL /\ outBuf'[j].msg # NULL
                 /\ outBuf'[i].msg.src # "clock" /\ outBuf'[j].msg.src # "clock")
                => outBuf'[i].msg.id < outBuf'[j].msg.id]_vars

\* C6: an entry whose frame is at or after the end of the period [now, now+N)
\* halts the drain: neither it nor any later entry is written or removed in
\* that cycle; and nothing is written in a cycle that ends before its frame.
C6_FutureHalts ==
    [][IsCycle =>
          /\ \A k \in DOMAIN g_mSchedule :
                k >= frameTime + cycFrames' =>
                    \A k2 \in DOMAIN g_mSchedule :
                        k2 >= k => /\ k2 \notin OutKeys(outBuf')
                                   /\ k2 \in DOMAIN g_mSchedule'
                                   /\ g_mSchedule'[k2] = g_mSchedule[k2]
          /\ \A w \in OutKeys(outBuf') : w < frameTime + cycFrames']_vars

\* A drain that wrote an entry and stopped at one scheduled beyond the period.
C6_Witness ==
    /\ drainExit = "beyond"
    /\ Len(outBuf) >= 1
    /\ \E k \in DOMAIN g_mSchedule : k >= cycNow + cycFrames

\* C7: a late entry (frame < now) is written at the earliest offset of the
\* period not used yet, late entries keep their schedule order, and an
\* on-time entry is never written before offset frame - now.
C7_LateAsap ==
    \A i \in 1 .. Len(outBuf) :
        LET used == {outBuf[j].time : j \in 1 .. (i - 1)}
        IN /\ outBuf[i].key < cycNow =>
                /\ outBuf[i].time \notin used
                /\ \A t \in 0 .. (outBuf[i].time - 1) : t \in used
                /\ \A j \in 1 .. (i - 1) :
                      outBuf[j].key < cycNow => outBuf[j].key < outBuf[i].key
           /\ outBuf[i].key >= cycNow =>
                outBuf[i].time >= outBuf[i].key - cycNow

\* A cycle that wrote two late entries, the second at offset 1.
C7_Witness ==
    /\ Len(outBuf) >= 2
    /\ outBuf[1].key < cycNow
    /\ outBuf[2].key < cycNow
    /\ outBuf[2].time = 1

\* C8 (as claimed): the note-off that playNote generates is put in the
\* schedule at a strictly greater key than its note-on, and is written to
\* the output after it (never while its note-on still waits, and after it
\* when both go out in one cycle).
C8_NoteOffAfterNoteOn ==
    [][/\ \A t \in timers \ timers' :
             \A k \in (DOMAIN g_mSchedule') \ (DOMAIN g_mSchedule) : k > t.key
       /\ IsCycle =>
             /\ \A f \in Written(outBuf'), o \in Waiting(g_mSchedule') :
                   f.src = "off" => f.ref # o.id
             /\ \A i, j \in 1 .. Len(outBuf') :
                   (/\ i < j
                    /\ outBuf'[i].msg # NULL /\ outBuf'[j].msg # NULL
                    /\ outBuf'[i].msg.src = "off")
                   => outBuf'[i].msg.ref # outBuf'[j].msg.id]_vars

\* C8, the order on the output alone.
C8_NoteOffWrittenAfter ==
    [][IsCycle =>
          /\ \A f \in Written(outBuf'), o \in Waiting(g_mSchedule') :
                f.src = "off" => f.ref # o.id
          /\ \A i, j \in 1 .. Len(outBuf') :
                (/\ i < j
                 /\ outBuf'[i].msg # NULL /\ outBuf'[j].msg # NULL
                 /\ outBuf'[i].msg.src = "off")
                => outBuf'[i].msg.ref # outBuf'[j].msg.id]_vars

(***************************************************************************)
(* Properties of the schedule flag.                                        *)
(***************************************************************************)
\* The threads whose next statement reads or modifies g_mSchedule.
InSchedule ==
    (IF rt \in {"drain", "erase", "clock"} THEN {0} ELSE {})
    \cup {t \in CtlThreads : ctl[t] \in {"find", "insert"}}

\* C4 (as claimed): at most one thread at a time is inside a section that
\* reads or modifies g_mSchedule.
C4_ScheduleExclusive == Cardinality(InSchedule) <= 1

\* C5 (as claimed): the realtime process callback is never sleeping, waiting
\* for a control thread to release the schedule flag.
C5_RealtimeNeverSleeps == rt # "sleep"

(***************************************************************************)
(* Properties of the timebase driver.                                      *)
(***************************************************************************)
\* C9 (as claimed): whenever the pulse walk re-arms g_nFramesToNextClock, the
\* frames per clock it uses are 60 * sample rate / (tempo * 24) for the
\* tempo the driver holds at that pulse.
C9_FramesPerClockCurrent ==
    \A i \in 1 .. Len(pulses) :
        pulses[i].fpc = Frac(60 * pulses[i].rate, pulses[i].tempo * ClocksPerBeat)

\* C10 (as claimed): at every clock pulse the timebase events applied to the
\* driver are those whose (bar, clock in bar) is at or before the place of
\* the pulse: none before its place is reached, each by the first pulse at
\* or after it.
C10_EventAtItsPlace ==
    \A i \in 1 .. Len(pulses) : pulses[i].applied = pulses[i].due

\* C11 (as claimed): with tempo 120 from bar 1 and tempo 60 from bar 2 and the
\* song playing, every pulse interval that begins in bar 1 is
\* frames_per_clock(120) long and every interval that begins in bar 2 is
\* frames_per_clock(60) long: the spacing changes on the bar boundary.
C11_TempoChangeOnBar ==
    tbEvents = TempoChangeMap =>
        \A i \in 1 .. Len(pulses) :
            pulses[i].fpc = getFramesPerClock(pulses[i].rate,
                                              IF pulses[i].bar < 2 THEN 120 ELSE 60)

\* C12 (as claimed): when a sync pulse (clock 0 of beat 1) is walked in a
\* period and the pattern manager reports no sequence playing, the callback
\* of that period requests transport stop and relocation to frame 0,
\* wherever the sync pulse falls among the pulses of the period.
C12_SyncIdleStops ==
    (\E i \in 1 .. Len(pulses) : pulses[i].sync) /\ ~drv.g_bPlaying
        => host.state = "Stopped" /\ host.newPos /\ host.req = Locate(0)

\* Frames from pulse a to the later pulse b are exactly the frames per clock
\* fpc (a rational).
ClockApart(a, b, fpc) == (b - a) * fpc[2] = fpc[1]

\* C13 (as claimed): in a period walked while the transport rolls at constant
\* tempo with no reposition, consecutive clock pulses are exactly
\* frames_per_clock frames apart, within the period and from the last pulse
\* of the period before to the first pulse of this one.
C13_PulsesEvenlySpaced ==
    [][(/\ tbEvents = <<>>
        /\ host.state = "Rolling" /\ ~host.newPos /\ ~drv.g_bTimebaseChanged
        /\ host'.cycle = host.cycle + 1
        /\ pulses # <<>> /\ pulses' # <<>>)
       => /\ \A i \in 1 .. Len(pulses') - 1 :
                 ClockApart(pulses'[i].offset, pulses'[i + 1].offset,
                            drv.g_dFramesPerClock)
          /\ ClockApart(pulses[Len(pulses)].offset - Period, pulses'[1].offset,
                        drv.g_dFramesPerClock)]_vars

\* C14 (as claimed): the frame handed to the pattern manager for a pulse is
\* the start of the cycle plus the frames from the start of the period to
\* the pulse (N - frames remaining + frames to next clock), so the frames of
\* successive pulses of one cycle are strictly increasing and as far apart
\* as the pulses are.
C14_ClockPosFollowsPulse ==
    \A i \in 1 .. Len(pulses) - 1 :
        /\ pulses[i].frame < pulses[i + 1].frame
        /\ pulses[i + 1].frame - pulses[i].frame
               = pulses[i + 1].offset - pulses[i].offset

\* C15 (as claimed): the position a timebase callback publishes is in range:
\* tick < ticks_per_beat and 1 <= beat <= beats_per_bar, whether it was set
\* from a BBT of the host, computed from the frame or carried over.
C15_PublishedInRange ==
    pos.valid => /\ pos.tick < pos.ticks_per_beat
                 /\ 1 <= pos.beat
                 /\ pos.beat <= pos.beats_per_bar

\* C16 (as claimed): when the driver consumes a TIMESIG event (the last one
\* of those due in a callback), its beats per bar become the high byte of
\* the event value and its beat type becomes the low byte.
C16_TimeSigBytes ==
    LET c == ConsumeEvents(drv, pos, tbEvents)
        was == EventsBefore(tbEvents, drv.g_pNextTimebaseEvent)
        now == EventsBefore(tbEvents, c.d.g_pNextTimebaseEvent)
    IN \A i \in was + 1 .. now :
           (/\ tbEvents[i].type = "TIMESIG"
            /\ \A j \in i + 1 .. now : tbEvents[j].type # "TIMESIG")
               => /\ c.d.g_fBeatsPerBar = tbEvents[i].value \div 256
                  /\ c.d.g_fBeatType = tbEvents[i].value % 256

\* C17 (as claimed): setPlayState(sequence, STOPPING) while the transport is
\* not rolling leaves the sequence STOPPED; setPlayState(sequence, STARTING)
\* while it is not rolling leaves the sequence STARTING, asks the host for
\* beat 1, tick 0 of the bar it is in and for transport start; while the
\* transport rolls the requested state is stored as it is.
C17_SetPlayStateStored ==
    last.op = "setPlayState" =>
        /\ (~last.rolling /\ last.state = "STOPPING")
               => pm.playState[last.sequence] = "STOPPED"
        /\ (~last.rolling /\ last.state = "STARTING")
               => /\ pm.playState[last.sequence] = "STARTING"
                  /\ host.newPos
                  /\ host.req.bar = pos.bar /\ host.req.beat = 1 /\ host.req.tick = 0
                  /\ host.state = "Rolling"
                  /\ \E i \in 1 .. Len(last.calls) : last.calls[i] = "transportStart"
        /\ last.rolling => pm.playState[last.sequence] = last.state

\* A STOPPING request that found the transport stopped.
C17_Witness ==
    /\ last.op = "setPlayState" /\ ~last.rolling /\ last.state = "STOPPING"
    /\ pm.playState[last.sequence] = "STOPPED"

\* A STARTING request that found the transport stopped inside bar 2.
C17_WitnessStart ==
    /\ last.op = "setPlayState" /\ ~last.rolling /\ last.state = "STARTING"
    /\ host.req.bar = 2 /\ host.req.beat = 1 /\ host.state = "Rolling"

\* C18 (as claimed): a note-on with velocity > 0 on the trigger channel
\* invokes the trigger for its note, and transport start is requested
\* exactly when the play state of the triggered sequence is then not
\* STOPPED; a note-on with velocity 0 or on another channel neither triggers
\* nor requests transport start.
C18_TriggerStartsTransport ==
    last.op = "onJackProcess" =>
        LET onTrigger == /\ last.status = MIDI_NOTE_ON + pm.triggerChannel
                         /\ last.velocity > 0
            called(f) == \E i \in 1 .. Len(last.calls) : last.calls[i] = f
        IN /\ called("trigger") <=> onTrigger
           /\ onTrigger => last.sequence = trigger(last.note)
           /\ called("transportStart")
                  <=> (onTrigger /\ pm.playState[last.sequence] # "STOPPED")
           /\ called("transportStart") => host.state = "Rolling"
           /\ (~onTrigger /\ ~last.rolling) => host.state # "Rolling"

\* The trigger note arrived with the transport stopped, its sequence is
\* STARTING and the transport was started.
C18_Witness ==
    /\ last.op = "onJackProcess" /\ ~last.rolling
    /\ last.status = MIDI_NOTE_ON + pm.triggerChannel /\ last.velocity > 0
    /\ last.sequence = TriggerSeq /\ pm.playState[TriggerSeq] = "STARTING"
    /\ host.state = "Rolling"

\* C19 (as claimed): a process cycle with a note-on (velocity > 0) on the
\* input channel toggles the note at the editor sequence's step and moves
\* the step on by one (to 0 at the pattern's step count) exactly when the
\* pattern editor's song is current, a pattern is selected and the
\* transport is stopped; in every other case the pattern's events and the
\* step stay as they are.
C19_InputNoteEdits ==
    [][(/\ last'.op = "onJackProcess"
        /\ last'.status = MIDI_NOTE_ON + lib.g_nInputChannel
        /\ last'.velocity > 0)
       => IF pm.currentSong = 0 /\ lib.g_pPattern /\ host.state = "Stopped"
          THEN /\ pm'.events = ToggleNote(pm.events, pm.step, last'.note,
                                          last'.velocity)
               /\ pm'.step = (pm.step + 1) % PatternSteps
          ELSE /\ pm'.events = pm.events
               /\ pm'.step = pm.step]_vars

\* C20 (as claimed): init returns false when opening the client, registering
\* the input or the output port or activating the client fails, and when
\* the library is initialised already; a refused timebase registration
\* alone does not fail it: init then still selects song 1, stops the
\* transport, locates it to frame 0 and returns true.
C20_InitResult ==
    last.op = "init" =>
        /\ last.ret <=> (~last.already /\ last.fault = "none")
        /\ last.ret => /\ last.calls = (IF last.master
                                         THEN <<"transportRequestTimebase">>
                                         ELSE <<>>)
                                        \o <<"selectSong", "transportStop",
                                             "transportLocate">>
                       /\ pm.currentSong = 1
                       /\ host.state = "Stopped"
                       /\ host.newPos /\ host.req = Locate(0)
                       /\ lib.g_pJackClient /\ lib.active

\* init asked to be timebase master, was refused, and returned true.
C20_Witness ==
    /\ last.op = "init" /\ last.master /\ ~last.granted /\ last.ret
    /\ pm.currentSong = 1 /\ host.req = Locate(0)

\* init returned false because the library was initialised already, and
\* because the output port was refused.
C20_WitnessAlready == last.op = "init" /\ last.already /\ ~last.ret
C20_WitnessFault == last.op = "init" /\ last.fault = "output" /\ ~last.ret

(***************************************************************************)
(* Properties of the pattern.                                              *)
(***************************************************************************)
\* The ranges [p1, p1 + d1) and [p2, p2 + d2) have a point in common.
RangesOverlap(p1, d1, p2, d2) ==
    (IF p1 > p2 THEN p1 ELSE p2) < (IF p1 + d1 < p2 + d2 THEN p1 + d1 ELSE p2 + d2)

\* Two events of the same command and value1start.
SameKey(a, b) == a.command = b.command /\ a.value1start = b.value1start

\* C21: no two events of a pattern with the same (command, value1start)
\* have overlapping ranges [position, position + duration): an added event
\* has evicted every event of its key that its range overlaps, wherever
\* the two ranges lie.
C21_NoOverlappingEvents ==
    \A i, j \in DOMAIN pattern.m_vEvents :
        (i < j /\ SameKey(pattern.m_vEvents[i], pattern.m_vEvents[j]))
        => ~RangesOverlap(pattern.m_vEvents[i].position, pattern.m_vEvents[i].duration,
                          pattern.m_vEvents[j].position, pattern.m_vEvents[j].duration)

\* The calls that add an event.
AddCalls == {"addNote", "addProgramChange", "addControl"}

\* C22: after any sequence of edits the events of the pattern are in
\* ascending order of position.
C22_EventsSorted ==
    \A i, j \in DOMAIN pattern.m_vEvents :
        i < j => pattern.m_vEvents[i].position <= pattern.m_vEvents[j].position

\* An event was added before an event of a later step.
C22_Witness ==
    /\ call.op \in AddCalls
    /\ call.ret
    /\ Len(pattern.m_vEvents) = 2
    /\ Len(call.before.m_vEvents) = 1
    /\ pattern.m_vEvents[1].position = call.step
    /\ pattern.m_vEvents[2].position > call.step
    /\ pattern.m_vEvents[2] = call.before.m_vEvents[1]

\* A note-on event of that step, note and velocity is in the pattern.
HasNote(p, step, note, velocity) ==
    \E i \in DOMAIN p.m_vEvents :
        /\ p.m_vEvents[i].position = step
        /\ p.m_vEvents[i].command = MIDI_NOTE_ON
        /\ p.m_vEvents[i].value1start = note
        /\ p.m_vEvents[i].value2start = velocity

NoteCount(p, step, note) ==
    Cardinality({i \in DOMAIN p.m_vEvents :
                    /\ p.m_vEvents[i].position = step
                    /\ p.m_vEvents[i].command = MIDI_NOTE_ON
                    /\ p.m_vEvents[i].value1start = note})

\* C24: addNote(s, n, v, d) followed by the same addNote(s, n, v, d) leaves
\* exactly one note event of position s and note n, for every step, note,
\* velocity and duration addNote accepts.  The state is the one the first
\* call left; the second call is applied to it.
C24_AddNoteTwice ==
    (call.op = "addNote" /\ call.ret) =>
        \A trap \in BOOLEAN :
            LET r == Pattern_addNote(pattern, call.step, call.value1, call.value2,
                                     call.duration, trap)
            IN ~r.aborted => NoteCount(r.pattern, call.step, call.value1) = 1

\* C25: setStepsPerBeat(n) with n in {1, 2, 3, 4, 6, 8, 12, 24} multiplies
\* the position and the duration of every event by n / old steps per beat
\* (new * old = n * before, for every event).
C25_StepsPerBeatRescales ==
    (call.op = "setStepsPerBeat" /\ call.arg \in StepsPerBeatValues) =>
        /\ Len(pattern.m_vEvents) = Len(call.before.m_vEvents)
        /\ \A i \in DOMAIN pattern.m_vEvents :
               /\ pattern.m_vEvents[i].position * call.before.m_nStepsPerBeat
                      = call.arg * call.before.m_vEvents[i].position
               /\ pattern.m_vEvents[i].duration * call.before.m_nStepsPerBeat
                      = call.arg * call.before.m_vEvents[i].duration

\* C26: the steps per beat of a pattern are one of {1, 2, 3, 4, 6, 8, 12, 24}
\* from construction onward, and setStepsPerBeat(n) with n outside that set
\* returns false and leaves the steps per beat and every event unchanged.
C26_StepsPerBeatValid ==
    /\ pattern.m_nStepsPerBeat \in StepsPerBeatValues
    /\ (call.op = "setStepsPerBeat" /\ call.arg \notin StepsPerBeatValues) =>
           (~call.ret /\ pattern = call.before)

\* The events of a vector with a position below the bound, in their order.
EventsBelow(events, bound) == SelectSeq(events, LAMBDA ev : ev.position < bound)

\* C27 as stated: after setBeatsInPattern(b) every remaining event has
\* position < b * steps per beat, and every event that had such a position
\* before the call is still there unchanged.
C27_SetBeatsAsStated ==
    call.op = "setBeatsInPattern" =>
        LET bound == call.arg * call.before.m_nStepsPerBeat
        IN /\ \A i \in DOMAIN pattern.m_vEvents : pattern.m_vEvents[i].position < bound
           /\ EventsBelow(pattern.m_vEvents, bound)
                  = EventsBelow(call.before.m_vEvents, bound)

\* C27 amended: setBeatsInPattern(b) sets the beats to b when b > 0 and
\* leaves them when b = 0; after it every remaining event has position <
\* beats * steps per beat for the beats the pattern then has, and every
\* event that had such a position before the call is still there unchanged.
C27_SetBeatsTruncates ==
    call.op = "setBeatsInPattern" =>
        LET bound == getSteps(pattern)
        IN /\ pattern.m_nBeats = IF call.arg > 0 THEN call.arg ELSE call.before.m_nBeats
           /\ pattern.m_nStepsPerBeat = call.before.m_nStepsPerBeat
           /\ \A i \in DOMAIN pattern.m_vEvents : pattern.m_vEvents[i].position < bound
           /\ pattern.m_vEvents = EventsBelow(call.before.m_vEvents, bound)

\* setBeatsInPattern shortened a pattern of two events to the first: the
\* second was at or after the new end.
C27_Witness ==
    /\ call.op = "setBeatsInPattern"
    /\ call.arg > 0
    /\ call.arg < call.before.m_nBeats
    /\ Len(call.before.m_vEvents) = 2
    /\ Len(pattern.m_vEvents) = 1
    /\ call.before.m_vEvents[2].position >= getSteps(pattern)

\* The note events of a vector.
IsNote(ev) == ev.command = MIDI_NOTE_ON

C28_WitnessMoved ==
    /\ call.op = "transpose"
    /\ call.ret
    /\ \E i, j \in DOMAIN pattern.m_vEvents :
           /\ IsNote(pattern.m_vEvents[i])
           /\ pattern.m_vEvents[i].value1start # call.before.m_vEvents[i].value1start
           /\ ~IsNote(pattern.m_vEvents[j])

\* The program change events of a step.
ProgramChangesAt(p, step) ==
    {i \in DOMAIN p.m_vEvents :
        p.m_vEvents[i].position = step /\ p.m_vEvents[i].command = MIDI_PROGRAM}

\* C29: every step holds at most one program change event; after an
\* addProgramChange(step, p) that returned true getProgramChange(step)
\* returns p; and getProgramChange returns 0xFF for a step without a
\* program change and for a step past the end of the pattern.
C29_OneProgramChangePerStep ==
    /\ \A step \in Steps : Cardinality(ProgramChangesAt(pattern, step)) <= 1
    /\ (call.op = "addProgramChange" /\ call.ret) =>
           getProgramChange(pattern, call.step) = call.value1
    /\ \A step \in Steps :
           (ProgramChangesAt(pattern, step) = {} \/ step >= getSteps(pattern))
           => getProgramChange(pattern, step) = NoProgram

\* addProgramChange replaced the program of a step by another, in a
\* pattern that holds a second event.
C29_Witness ==
    /\ call.op = "addProgramChange"
    /\ call.ret
    /\ getProgramChange(call.before, call.step) \notin {NoProgram, call.value1}
    /\ Len(pattern.m_vEvents) = 2

\* A program change lies past the end of the pattern.
C29_WitnessPastEnd ==
    \E step \in Steps :
        ProgramChangesAt(pattern, step) # {} /\ step >= getSteps(pattern)

\* C30: every event of a pattern has position < beats * steps per beat and
\* duration > 0, after any sequence of addNote, addProgramChange, addControl,
\* setBeatsInPattern and setStepsPerBeat.
C30_EventsInsidePattern ==
    \A i \in DOMAIN pattern.m_vEvents :
        /\ pattern.m_vEvents[i].position < getSteps(pattern)
        /\ pattern.m_vEvents[i].duration > 0

(***************************************************************************)
(* Further properties of the drain.                                        *)
(***************************************************************************)
\* C31 (as claimed): when onJackProcess has returned, on whichever path the
\* drain ended, no entry whose message was written to the output and freed
\* (its pointer set to NULL) remains in the schedule; hence no cycle reserves
\* an output event for an entry that was sent before.
C31_NoSentEntryRemains ==
    /\ \A k \in DOMAIN g_mSchedule : g_mSchedule[k] # NULL
    /\ \A i \in 1 .. Len(outBuf) : outBuf[i].msg # NULL

\* The message of rank id waits in the schedule at a frame before the end of
\* the latest cycle; the latest cycle wrote it to the output.
Due(id) ==
    \E k \in DOMAIN g_mSchedule :
        g_mSchedule[k].id = id /\ k < cycNow + cycFrames
WrittenNow(id) == \E i \in 1 .. Len(outBuf) : outBuf[i].msg.id = id

\* C32 (as claimed): with the reservation of output events always succeeding
\* and the process cycles running on, every message in the schedule whose
\* frame lies before the end of a cycle is eventually written to the output,
\* however many entries are due in one cycle of N frames.
C32_DueEventuallyWritten ==
    \A id \in 1 .. MaxMsgs : Due(id) ~> WrittenNow(id)

(***************************************************************************)
(* Further properties of the timebase driver.                              *)
(***************************************************************************)
\* C33 (as claimed): every invocation of the timebase callback terminates:
\* the pulse walk performs finitely many pulses in a period, for every tempo
\* and sample rate that transportSetTempo, setTempo and the sample-rate
\* callback can set.
C33_WalkTerminates == rt # "walk"


\* C34: the clock-in-beat counter g_nClock is in 0..23 in every reachable
\* state: after a reposition from the BBT the host hands in, whatever its
\* ticks_per_beat, after a reposition computed by updateBBT, and along the
\* pulse walk.
C34_ClockInBeat == drv.g_nClock \in 0 .. ClocksPerBeat - 1

\* A step that walks one clock pulse.
IsPulse == \E bPlaying \in BOOLEAN : WalkPulse(bPlaying)

\* C35 (as claimed): on every pulse walked the clock-in-beat counter goes on
\* by one modulo 24; when it wraps the beat goes on by one; when the beat
\* would exceed beats_per_bar it returns to 1 and the bar counter goes on by
\* one, so that the bar is counted after every beats_per_bar beats of a
\* rolling transport.
C35_BarAfterBeats ==
    [][IsPulse =>
          LET wrap == drv'.g_nClock = 0
              over == wrap /\ drv.g_nBeat + 1 > drv.g_fBeatsPerBar
          IN /\ drv'.g_nClock = (drv.g_nClock + 1) % ClocksPerBeat
             /\ drv'.g_nBeat = IF over THEN 1
                               ELSE IF wrap THEN drv.g_nBeat + 1
                               ELSE drv.g_nBeat
             /\ drv'.g_nBar = IF over THEN drv.g_nBar + 1 ELSE drv.g_nBar]_vars

\* A step that is startSong(true): the call itself, or the startSong() of
\* MIDI_START and MIDI_CONTINUE where its default argument is true.
FastStart ==
    \/ songStart(TRUE)
    \/ \E msg \in SongMessages :
           /\ msg[1] \in {"MIDI_START", "MIDI_CONTINUE"}
           /\ onJackProcessSong(msg, TRUE)

\* C36: a song that is STARTING becomes PLAYING at a sync pulse (clock 0 of
\* beat 1) walked while the transport rolls, and at no other pulse; a pulse
\* takes a PLAYING song to STOPPED only when the song position has gone
\* beyond the song length, and to no other status; and a step that reaches
\* PLAYING is such a sync pulse or startSong(true).
C36_SongStatusSteps ==
    [][LET sync == drv.g_nClock = 0 /\ drv.g_nBeat = 1
           before == drv.g_nSongStatus
           after == drv'.g_nSongStatus
       IN /\ IsPulse /\ before = "STARTING" =>
                 /\ host.state = "Rolling"
                 /\ after = IF sync THEN "PLAYING" ELSE "STARTING"
          /\ IsPulse /\ before = "PLAYING" =>
                 /\ after \in {"PLAYING", "STOPPED"}
                 /\ after = "STOPPED" => drv'.g_nSongPosition > drv'.g_nSongLength
          /\ IsPulse /\ before = "STOPPED" => after = "STOPPED"
          /\ before # "PLAYING" /\ after = "PLAYING" =>
                 \/ IsPulse /\ before = "STARTING" /\ sync
                 \/ FastStart]_vars

\* A sync pulse has just been walked by which a STARTING song became PLAYING
\* (a song PLAYING before the pulse would have been counted on by it).
C36_StartedAtSync ==
    /\ rt = "clock"
    /\ LastSync
    /\ drv.g_nSongStatus = "PLAYING"
    /\ drv.g_nSongPosition = 0

\* C37 (as claimed): the song position counts MIDI clocks: every pulse
\* walked with the song PLAYING before and after it takes the position on by
\* exactly one, and a Song Position Pointer with data bytes lsb, msb sets it
\* to (lsb | msb << 7) * 6 of the same clocks.
C37_PositionInClocks ==
    [][/\ IsPulse /\ drv.g_nSongStatus = "PLAYING" /\ drv'.g_nSongStatus = "PLAYING" =>
              drv'.g_nSongPosition = drv.g_nSongPosition + 1
       /\ \A msg \in SongMessages, bFast \in BOOLEAN :
              msg[1] = "MIDI_POSITION" /\ onJackProcessSong(msg, bFast) =>
                  drv'.g_nSongPosition = (msg[2] + 128 * msg[3]) * (ClocksPerBeat \div 4)]_vars

\* C38 (as claimed): transportGetLocation and updateBBT are inverse to each
\* other: at the default tempo and time signature, with a whole number of
\* frames for a tick, the position updateBBT computes from the frame that
\* transportGetLocation gave for a valid bar, beat and tick is that bar, beat
\* and tick.
C38_RoundTrip ==
    pos.valid =>
        \A bbt \in LocateBBTs :
            transportGetLocation(drv.g_nSampleRate, bbt[1], bbt[2], bbt[3]) = pos.frame
                => <<pos.bar, pos.beat, pos.tick>> = bbt

(***************************************************************************)
(* Further properties of the pattern.                                      *)
(***************************************************************************)
\* C39 (as claimed): after setNoteVelocity(step, note, v) with v <= 127 on a
\* step that holds the note, getNoteVelocity(step, note) returns v and
\* nothing else in the pattern has changed; with v > 127 or no such note the
\* pattern is as it was.
C39_SetNoteVelocity ==
    call.op = "setNoteVelocity" /\ ~call.aborted =>
        LET b == call.before
            held == \E i \in DOMAIN b.m_vEvents : IsNoteAt(b, i, call.step, call.value1)
        IN IF call.value2 <= 127 /\ held
           THEN /\ Pattern_getNoteVelocity(pattern, call.step, call.value1) = call.value2
                /\ pattern.m_nBeats = b.m_nBeats
                /\ pattern.m_nStepsPerBeat = b.m_nStepsPerBeat
                /\ Len(pattern.m_vEvents) = Len(b.m_vEvents)
                /\ \A i \in DOMAIN b.m_vEvents :
                       \/ pattern.m_vEvents[i] = b.m_vEvents[i]
                       \/ /\ IsNoteAt(b, i, call.step, call.value1)
                          /\ pattern.m_vEvents[i] =
                                 [b.m_vEvents[i] EXCEPT !.value2start = call.value2]
           ELSE pattern = b

====
